---- MODULE Spec2Model ----
(***************************************************************************)
(* State-machine model of the "what to do tomorrow" agent.                 *)
(*                                                                         *)
(*   Spec         one agent instance (src/agent.py): start_mcp_server,     *)
(*                and turns of agent_loop = intent extraction, validation, *)
(*                the bounded decision loop, final response.               *)
(*   GatewaySpec  one MCPClient instance (src/mcp_client.py): start,       *)
(*                handshake, tool calls, shutdown, with the bytes it       *)
(*                writes to the provider.                                  *)
(*                                                                         *)
(* Python dicts are functions with a string domain (a missing key is a key *)
(* outside DOMAIN); JSON null / Python None is the string None; a JSON     *)
(* value that is not an object is NonDict.  The LLM and the tool provider  *)
(* are the environment: every action draws their answer with \E.           *)
(***************************************************************************)
EXTENDS Integers, Sequences, FiniteSets, TLC

VARIABLES
    mcp_server_process, \* agent.py: self.mcp_server_process (None or a handle)
    pc,                 \* position of agent_loop in the current turn
    context,            \* agent.py: the dict `context` of the current turn
    ret,                \* what agent_loop handed to its caller in this turn
    last,               \* observation of the latest loop iteration
    stats,              \* observation: what the current turn has done so far
    gw_process,         \* mcp_client.py: self.process
    gw_request_id,      \* mcp_client.py: self._request_id
    gw_ready,           \* the handshake on the current subprocess succeeded
    gw_wire,            \* the lines written to the provider's stdin, in order
    gw_stdout,          \* the pipe read by readline: response ids not yet read
    gw_ret,             \* the value the latest gateway operation returned
    gw_terminations,    \* per subprocess spawned so far: terminate() calls on it
    util,               \* one use of the utils/ functions: arguments and result
    fleet               \* two agent instances side by side, and their subprocesses

agentVars == <<mcp_server_process, pc, context, ret, last, stats>>
gwVars == <<gw_process, gw_request_id, gw_ready, gw_wire, gw_stdout, gw_ret,
           gw_terminations>>
vars == <<mcp_server_process, pc, context, ret, last, stats,
          gw_process, gw_request_id, gw_ready, gw_wire, gw_stdout, gw_ret,
          gw_terminations, util, fleet>>

----------------------------------------------------------------------------
(* Python values *)

None == "<None>"
EmptyDict == [k \in {} |-> None]
NonDict == [nondict |-> TRUE]

IsDict(d) == "nondict" \notin DOMAIN d
Has(d, k) == k \in DOMAIN d
\* d.get(k, default)
Get(d, k, default) == IF k \in DOMAIN d THEN d[k] ELSE default
\* d[k] = v
Put(d, k, v) == (k :> v) @@ d
\* bool(v) for a string or None
Truthy(v) == v # None /\ v # ""
\* bool(d.get("success")): success is a JSON boolean when present
GetSuccess(d) == Has(d, "success") /\ d.success

Min(a, b) == IF a < b THEN a ELSE b

----------------------------------------------------------------------------
(* Program constants *)

DefaultMaxLoops == 5
ResponseLimit == 8
\* extract_unique_activities_for_response(activity_data_list, limit=8)
DefaultLimit == 8
\* agent.py writes "id": 1 in every request it sends
McpRequestId == 1

----------------------------------------------------------------------------
(* The environment: what the LLM and the tool provider can answer *)

Queries == {"What can I do tomorrow in Sydney?"}

\* The values max_loops takes: agent.py writes DefaultMaxLoops; the context
\* builder takes any value from its caller.
MaxLoopsChoices == 0 .. DefaultMaxLoops

\* JSON values the query analyzer's LLM can print.
AnalysisValues ==
    { [location |-> "Sydney", time_context |-> "today"],
      [location |-> "Sydney"],
      [location |-> None, time_context |-> "today"],
      [location |-> "", time_context |-> "today"],
      [time_context |-> "today"],
      [error |-> "cannot help"],
      NonDict }

\* JSON values the decision engine's LLM can print.
DecisionValues ==
    { [action |-> "call_weather_api", params |-> [location |-> "Sydney"]],
      [action |-> "call_weather_api",
       params |-> [location |-> "Sydney", target_date |-> "2025-09-07"]],
      [action |-> "call_weather_api"],
      [action |-> "call_activity_api",
       params |-> [location |-> "Sydney", activity_type |-> "both"]],
      [action |-> "call_activity_api"],
      [action |-> "respond_to_user"],
      [action |-> "dance"],
      [reasoning |-> "no action given"],
      NonDict }

\* One LLM call: it throws, prints text that is not JSON, or prints JSON.
LLMOutcomes(values) ==
    { [kind |-> "transport_error"], [kind |-> "unparseable"] }
        \cup { [kind |-> "json", value |-> v] : v \in values }

DaySunny ==
    [date |-> "2025-09-07",
     day_summary |-> [condition |-> "Sunny", min_temp_c |-> 10,
                      max_temp_c |-> 20, chance_of_rain |-> 10]]

WOk ==
    [success |-> TRUE,
     location |-> [name |-> "Sydney"],
     target_date |-> [requested |-> "tomorrow", resolved |-> "2025-09-07"],
     current_weather |-> [condition |-> "Cloudy"],
     forecast |-> <<DaySunny>>]
\* a success whose target day is the second day of the forecast
WLater ==
    [success |-> TRUE,
     location |-> [name |-> "Sydney"],
     target_date |-> [requested |-> "2025-09-08", resolved |-> "2025-09-08"],
     current_weather |-> [condition |-> "Cloudy"],
     forecast |-> <<DaySunny,
                    [date |-> "2025-09-08",
                     day_summary |-> [condition |-> "Rain", min_temp_c |-> 8,
                                      max_temp_c |-> 15,
                                      chance_of_rain |-> 90]]>>]
\* a success whose day summary carries the condition only
WPartial ==
    [success |-> TRUE,
     location |-> [name |-> "Sydney"],
     current_weather |-> [condition |-> "Cloudy"],
     forecast |-> <<[date |-> "2025-09-07",
                     day_summary |-> [condition |-> "Sunny"]]>>]
WBare == [success |-> TRUE]
WFail == [success |-> FALSE, error |-> "timeout"]

ActA == [name |-> "A", category |-> "culture", description |-> "a"]
ActB == [name |-> "B", category |-> "nature", description |-> "b"]

AOk ==
    [success |-> TRUE,
     total_results |-> 2,
     query_parameters |-> [resolved_activity_type |-> "indoor"],
     activities |-> <<ActA, ActB>>]
ABare == [success |-> TRUE]
AFail == [success |-> FALSE, error |-> "Activity API error"]

\* The JSON value inside result.content[0].text, per tool.
ToolPayloads(tool_name) ==
    IF tool_name = "weather_api"
    THEN {WOk, WLater, WPartial, WBare, WFail, NonDict}
    ELSE {AOk, ABare, AFail, NonDict}

\* One request/response exchange on the pipe: the write or the read throws
\* (or the line is not JSON), or the response carries a result.  A response
\* without result gives the same {error: cause} shape as the exception.
WireOutcomes(tool_name) ==
    { [kind |-> "exception"] }
        \cup { [kind |-> "result", payload |-> p] : p \in ToolPayloads(tool_name) }

----------------------------------------------------------------------------
(* agent.py: the pure parts *)

\* Mutant of AnalyzeInitialQuery: a failed call answers with an empty dict.
AnalyzeInitialQuerySwallow(llm) ==
    IF llm.kind = "json" THEN llm.value ELSE EmptyDict

\* analyze_initial_query: the LLM call and json.loads inside try/except.
AnalyzeInitialQuery(llm) ==
    IF llm.kind = "json"
    THEN llm.value
    ELSE [error |-> "Failed to analyze query"]

\* agent_loop, `if "error" in query_analysis`; NonDict has no such member.
AnalysisHasError(qa) == IsDict(qa) /\ Has(qa, "error")

\* Mutant of LocationMissing: only a null or absent location is refused.
LocationMissingNullOnly(qa) == Get(qa, "location", None) = None

\* agent_loop, `if not query_analysis.get("location")`.
LocationMissing(qa) == ~Truthy(Get(qa, "location", None))

\* Mutant of ShouldContinue: the bound tested with <= .
ShouldContinueOffByOne(c) == c.loop_count <= c.max_loops

\* agent_loop, `while context["loop_count"] < context["max_loops"]`.
ShouldContinue(c) == c.loop_count < c.max_loops

\* Mutant of IncrementLoopCount: the counter stepped by two.
IncrementLoopCountByTwo(c) == [c EXCEPT !.loop_count = @ + 2]

\* agent_loop, `context["loop_count"] += 1`.
IncrementLoopCount(c) == [c EXCEPT !.loop_count = @ + 1]

\* decide_next_action: weather part of context_summary.
WeatherSummaryRaises(w) ==
    /\ GetSuccess(w)
    /\ ~ ( /\ Has(w, "location") /\ Has(w.location, "name")
           /\ Has(w, "current_weather") /\ Has(w.current_weather, "condition")
           /\ Has(w, "forecast")
           /\ (w.forecast # <<>> =>
                  /\ Has(w.forecast[1], "day_summary")
                  /\ Has(w.forecast[1].day_summary, "condition")) )

WeatherSummary(w) ==
    IF GetSuccess(w)
    THEN [location |-> w.location.name,
          current_condition |-> w.current_weather.condition,
          tomorrow_forecast |->
              IF w.forecast # <<>>
              THEN w.forecast[1].day_summary.condition
              ELSE "no_forecast"]
    ELSE [error |-> Get(w, "error", None)]

\* decide_next_action: activity part of context_summary.
ActivitySummaryRaises(a) ==
    /\ GetSuccess(a)
    /\ ~ ( /\ Has(a, "total_results")
           /\ Has(a, "query_parameters")
           /\ Has(a.query_parameters, "resolved_activity_type") )

ActivitySummary(a) ==
    IF GetSuccess(a)
    THEN [count |-> a.total_results,
          type |-> a.query_parameters.resolved_activity_type]
    ELSE [error |-> Get(a, "error", None)]

\* decide_next_action: building context_summary happens before the try.
SummaryRaises(c) ==
    \/ Has(c, "weather_data") /\ WeatherSummaryRaises(c.weather_data)
    \/ Has(c, "activity_data") /\ ActivitySummaryRaises(c.activity_data)

DataCollected(c) ==
    (IF Has(c, "weather_data")
     THEN [weather |-> WeatherSummary(c.weather_data)] ELSE EmptyDict)
    @@
    (IF Has(c, "activity_data")
     THEN [activities |-> ActivitySummary(c.activity_data)] ELSE EmptyDict)

ContextSummary(c) ==
    [original_query |-> c.query,
     extracted_info |-> Get(c, "query_analysis", EmptyDict),
     tools_used |-> Get(c, "tools_called", <<>>),
     data_collected |-> DataCollected(c)]

\* Mutant of FallbackDecision: the fallback carries the error only.
FallbackDecisionNoAction == [error |-> "Decision failed"]

\* decide_next_action: the fallback of the except branch.
FallbackDecision ==
    [action |-> "respond_to_user", error |-> "Decision failed"]

\* decide_next_action: the LLM call and json.loads inside try/except.
DecideNextAction(llm) ==
    IF llm.kind = "json" THEN llm.value ELSE FallbackDecision

\* agent_loop, the weather branch: target_date from the analysis if absent.
WeatherParams(d, qa) ==
    LET weather_params == Get(d, "params", EmptyDict)
    IN  IF ~Has(weather_params, "target_date")
        THEN Put(weather_params, "target_date",
                 Get(qa, "time_context", "tomorrow"))
        ELSE weather_params

\* call_mcp_tool: what it returns for one exchange on the pipe.
CallMcpTool(process, wire) ==
    IF process = None
    THEN [error |-> "MCP server not started"]
    ELSE CASE wire.kind = "result" -> wire.payload
           [] wire.kind = "no_result" -> [error |-> "Invalid MCP response"]
           [] OTHER -> [error |-> "MCP tool call failed"]

\* call_mcp_tool: the lines it writes to the provider.
CallMcpToolWrites(process) == IF process = None THEN 0 ELSE 1

----------------------------------------------------------------------------
(* agent.py: generate_final_response *)

DayComplete(f) ==
    /\ Has(f, "day_summary")
    /\ {"condition", "min_temp_c", "max_temp_c", "chance_of_rain"}
           \subseteq DOMAIN f.day_summary

\* all_activities: the activities of the successful results, in call order.
RECURSIVE AllActivities(_)
AllActivities(list) ==
    IF list = <<>> THEN <<>>
    ELSE (IF GetSuccess(Head(list)) THEN Head(list).activities ELSE <<>>)
             \o AllActivities(Tail(list))

\* Mutant of UniqueByName: nothing is dropped.
UniqueByNameKeepAll(acts, seen_names) == acts

\* unique_activities: first occurrence of each name, order kept.
RECURSIVE UniqueByName(_, _)
UniqueByName(acts, seen_names) ==
    IF acts = <<>> THEN <<>>
    ELSE IF Head(acts).name \in seen_names
         THEN UniqueByName(Tail(acts), seen_names)
         ELSE <<Head(acts)>>
                  \o UniqueByName(Tail(acts), seen_names \cup {Head(acts).name})

\* unique_activities[:8]
Shown(c) ==
    IF Has(c, "activity_data_list")
    THEN LET u == UniqueByName(AllActivities(c.activity_data_list), {})
         IN  SubSeq(u, 1, Min(ResponseLimit, Len(u)))
    ELSE <<>>

\* The subscripts of generate_final_response that a result can fail.
GenerateRaises(c) ==
    \/ /\ Has(c, "weather_data")
       /\ GetSuccess(c.weather_data)
       /\ \/ ~Has(c.weather_data, "forecast")
          \/ /\ c.weather_data.forecast # <<>>
             /\ ~DayComplete(c.weather_data.forecast[1])
    \/ /\ Has(c, "activity_data_list")
       /\ \E i \in 1 .. Len(c.activity_data_list) :
              /\ GetSuccess(c.activity_data_list[i])
              /\ \/ ~Has(c.activity_data_list[i], "activities")
                 \/ \E j \in 1 .. Len(c.activity_data_list[i].activities) :
                        ~ ({"name", "category", "description"} \subseteq
                               DOMAIN c.activity_data_list[i].activities[j])

\* The "Handle errors" part: one note per failed weather / latest activity.
ResponseNotes(c) ==
    (IF Has(c, "weather_data") /\ ~GetSuccess(c.weather_data)
     THEN <<[tool |-> "Weather", error |-> Get(c.weather_data, "error", None)]>>
     ELSE <<>>)
    \o
    (IF Has(c, "activity_data") /\ ~GetSuccess(c.activity_data)
     THEN <<[tool |-> "Activities",
             error |-> Get(c.activity_data, "error", None)]>>
     ELSE <<>>)

\* Mutant of ExtractErrorsFromContext: only success = False is an error.
ExtractErrorsExplicitFailure(c) ==
    (IF Has(c, "weather_data") /\ Has(c.weather_data, "success")
           /\ ~c.weather_data.success
     THEN <<[text |-> "Weather data unavailable",
             error |-> Get(c.weather_data, "error", None)]>>
     ELSE <<>>)
    \o
    (IF Has(c, "activity_data") /\ Has(c.activity_data, "success")
           /\ ~c.activity_data.success
     THEN <<[text |-> "Activity data unavailable",
             error |-> Get(c.activity_data, "error", None)]>>
     ELSE <<>>)

\* data_extractors.py, extract_errors_from_context: the same two tests, with
\* its own wording.
ExtractErrorsFromContext(c) ==
    (IF Has(c, "weather_data") /\ ~GetSuccess(c.weather_data)
     THEN <<[text |-> "Weather data unavailable",
             error |-> Get(c.weather_data, "error", None)]>>
     ELSE <<>>)
    \o
    (IF Has(c, "activity_data") /\ ~GetSuccess(c.activity_data)
     THEN <<[text |-> "Activity data unavailable",
             error |-> Get(c.activity_data, "error", None)]>>
     ELSE <<>>)

\* The parts the response text is joined from.
ResponseParts(c) ==
    [location |-> Get(Get(c, "query_analysis", EmptyDict), "location",
                      "the location"),
     weather |->
         IF /\ Has(c, "weather_data") /\ GetSuccess(c.weather_data)
            /\ c.weather_data.forecast # <<>>
         THEN c.weather_data.forecast[1].day_summary.condition
         ELSE None,
     activities |-> [i \in 1 .. Len(Shown(c)) |-> Shown(c)[i].name],
     notes |-> ResponseNotes(c)]

----------------------------------------------------------------------------
(* agent.py: one agent instance *)

NoRet == [type |-> "none"]
Raised(what) == [type |-> "exception", what |-> what]
AnalysisError(msg) == [type |-> "str", text |-> "ERROR: analysis", detail |-> msg]
LocationPrompt == [type |-> "str", text |-> "ERROR: please specify a city"]
FinalResponse(c) == [type |-> "str", text |-> "response", parts |-> ResponseParts(c)]

NoView == [absent |-> TRUE]
NoResult == [absent |-> TRUE]
NoLast ==
    [view |-> NoView, llm |-> "none", decision |-> NonDict, tool |-> "none",
     calls |-> 0, writes |-> 0, args |-> EmptyDict, result |-> NoResult,
     prev_tool |-> "none", prev_result |-> NoResult]
ZeroStats ==
    [extract |-> 0, extract_failed |-> FALSE, iterations |-> 0, decisions |-> 0, tool_calls |-> 0,
     weather_calls |-> 0, activity_calls |-> 0, writes |-> 0, synth |-> 0,
     only_weather |-> TRUE, actions |-> <<>>, decide_calls |-> 0,
     query |-> None, intent |-> NoResult, earlier |-> FALSE,
     request_ids |-> <<>>, weather_result |-> NoResult, activity_log |-> <<>>]

TurnOver == pc \in {"IDLE", "DONE", "ERROR", "RAISED"}

AgentInit ==
    /\ mcp_server_process = None
    /\ pc = "IDLE"
    /\ context = EmptyDict
    /\ ret = NoRet
    /\ last = NoLast
    /\ stats = ZeroStats

\* start_mcp_server: Popen, then the handshake, whose result is dropped;
\* a Popen that throws leaves the handle as it was.
StartMcpServer ==
    /\ TurnOver
    /\ \E popen_ok \in BOOLEAN :
           mcp_server_process' = IF popen_ok THEN "proc" ELSE mcp_server_process
    /\ UNCHANGED <<pc, context, ret, last, stats>>

\* agent_loop is entered: the context literal.
\* Mutant of StartTurn: the new turn's keys are written over the context
\* the instance already has.
StartTurnOnOldContext ==
    /\ TurnOver
    /\ \E q \in Queries, n \in MaxLoopsChoices :
           context' = [query |-> q, tools_called |-> <<>>,
                       loop_count |-> 0, max_loops |-> n] @@ context
    /\ pc' = "START"
    /\ ret' = NoRet
    /\ last' = NoLast
    /\ stats' = [ZeroStats EXCEPT !.query = context'.query,
                                  !.earlier = stats.tool_calls > 0]
    /\ UNCHANGED mcp_server_process

\* agent_loop is entered: the context literal.  stats.earlier notes whether
\* the turn before recorded a tool result.
StartTurn ==
    /\ TurnOver
    /\ \E q \in Queries, n \in MaxLoopsChoices :
           context' = [query |-> q, tools_called |-> <<>>,
                       loop_count |-> 0, max_loops |-> n]
    /\ pc' = "START"
    /\ ret' = NoRet
    /\ last' = NoLast
    /\ stats' = [ZeroStats EXCEPT !.query = context'.query,
                                  !.earlier = stats.tool_calls > 0]
    /\ UNCHANGED mcp_server_process

\* Step 1: analyze_initial_query and the `"error" in` test.
Analyze ==
    /\ pc = "START"
    /\ \E llm \in LLMOutcomes(AnalysisValues) :
           LET qa == AnalyzeInitialQuery(llm)
           IN  /\ stats' = [stats EXCEPT !.extract = @ + 1,
                                         !.extract_failed = llm.kind # "json",
                                         !.intent = qa]
               /\ IF AnalysisHasError(qa)
                  THEN /\ pc' = "ERROR"
                       /\ ret' = AnalysisError(qa.error)
                       /\ context' = context
                  ELSE /\ pc' = "INTENT_EXTRACTED"
                       /\ ret' = ret
                       /\ context' = Put(context, "query_analysis", qa)
    /\ UNCHANGED <<mcp_server_process, last>>

\* The location check; .get on a JSON array throws.
Validate ==
    /\ pc = "INTENT_EXTRACTED"
    /\ IF ~IsDict(context.query_analysis)
       THEN pc' = "RAISED" /\ ret' = Raised("AttributeError: get")
       ELSE IF LocationMissing(context.query_analysis)
            THEN pc' = "ERROR" /\ ret' = LocationPrompt
            ELSE pc' = "LOOPING" /\ ret' = ret
    /\ UNCHANGED <<mcp_server_process, context, last, stats>>

\* Mutant of AfterToolResult: a failed tool call ends the loop.
AfterToolResultFatal(tool_name, result) ==
    IF ~IsDict(result)
    THEN "RAISED"
    ELSE IF GetSuccess(result) THEN "LOOPING" ELSE "RESPONDING"

\* What the loop does with a tool result after recording it: only prints,
\* but .get on a JSON array and result['total_results'] can throw.
AfterToolResult(tool_name, result) ==
    IF ~IsDict(result)
    THEN "RAISED"
    ELSE IF /\ tool_name = "activity_api"
            /\ GetSuccess(result)
            /\ ~Has(result, "total_results")
         THEN "RAISED"
         ELSE "LOOPING"

\* Mutant of RecordWeather: the target date asked for is written back into
\* the intent.
RecordWeatherIntoIntent(c, result) ==
    [Put(c, "weather_data", result)
        EXCEPT !.tools_called = Append(@, "weather_api"),
               !.query_analysis = Put(@, "time_context", "asked")]

\* The weather branch: context["weather_data"] = result; tools_called.append.
RecordWeather(c, result) ==
    [Put(c, "weather_data", result)
        EXCEPT !.tools_called = Append(@, "weather_api")]

\* Mutant of RecordActivity: only the latest result is kept in the list.
RecordActivityLatestOnly(c, result) ==
    [Put(Put(c, "activity_data_list", <<result>>), "activity_data", result)
        EXCEPT !.tools_called = Append(@, "activity_api")]

\* Mutant of RecordActivity: activity_data keeps the first result.
RecordActivityKeepFirst(c, result) ==
    LET list == Get(c, "activity_data_list", <<>>)
    IN  [Put(Put(c, "activity_data_list", Append(list, result)),
             "activity_data", Get(c, "activity_data", result))
            EXCEPT !.tools_called = Append(@, "activity_api")]

\* The activity branch: append to activity_data_list, keep the latest.
RecordActivity(c, result) ==
    LET list == Get(c, "activity_data_list", <<>>)
    IN  [Put(Put(c, "activity_data_list", Append(list, result)),
             "activity_data", result)
            EXCEPT !.tools_called = Append(@, "activity_api")]

\* One tool call of the loop body: the request, the recording, the follow-up.
ToolBranch(c1, llm_kind, d, view, st, tool_name, args) ==
    \E wire \in WireOutcomes(tool_name) :
        LET result == CallMcpTool(mcp_server_process, wire)
            writes == CallMcpToolWrites(mcp_server_process)
            next == AfterToolResult(tool_name, result)
        IN  /\ context' = IF tool_name = "weather_api"
                          THEN RecordWeather(c1, result)
                          ELSE RecordActivity(c1, result)
            /\ pc' = next
            /\ ret' = IF next = "RAISED" THEN Raised("tool result") ELSE ret
            /\ last' = [view |-> view, llm |-> llm_kind, decision |-> d,
                        tool |-> tool_name, calls |-> 1, writes |-> writes,
                        args |-> args, result |-> result,
                        prev_tool |-> last.tool, prev_result |-> last.result]
            /\ stats' = [st EXCEPT
                   !.tool_calls = @ + 1,
                   !.writes = @ + writes,
                   !.weather_calls =
                       IF tool_name = "weather_api" THEN @ + 1 ELSE @,
                   !.activity_calls =
                       IF tool_name = "activity_api" THEN @ + 1 ELSE @,
                   !.only_weather = @ /\ tool_name = "weather_api",
                   !.request_ids =
                       IF writes = 1 THEN Append(@, McpRequestId) ELSE @,
                   !.weather_result =
                       IF tool_name = "weather_api" THEN result ELSE @,
                   !.activity_log =
                       IF tool_name = "activity_api" THEN Append(@, result) ELSE @]

\* Mutant of NoToolBranch: the iteration leaves a mark in tools_called.
NoToolBranchMarking(c1, llm_kind, d, view, st, next, r) ==
    /\ context' = [c1 EXCEPT !.tools_called = Append(@, "none")]
    /\ pc' = next
    /\ ret' = r
    /\ last' = [view |-> view, llm |-> llm_kind, decision |-> d,
                tool |-> "none", calls |-> 0, writes |-> 0,
                args |-> EmptyDict, result |-> NoResult,
                prev_tool |-> last.tool, prev_result |-> last.result]
    /\ stats' = [st EXCEPT !.only_weather = FALSE]

\* An iteration that ends without a tool call.
NoToolBranch(c1, llm_kind, d, view, st, next, r) ==
    /\ context' = c1
    /\ pc' = next
    /\ ret' = r
    /\ last' = [view |-> view, llm |-> llm_kind, decision |-> d,
                tool |-> "none", calls |-> 0, writes |-> 0,
                args |-> EmptyDict, result |-> NoResult,
                prev_tool |-> last.tool, prev_result |-> last.result]
    /\ stats' = [st EXCEPT !.only_weather = FALSE]

\* Mutant of AfterOtherAction: an unknown action is skipped and the loop
\* goes on.
AfterOtherActionContinue(d) ==
    IF d.action = "respond_to_user" THEN "RESPONDING" ELSE "LOOPING"

\* The elif respond_to_user and the else branch: both break out of the loop.
AfterOtherAction(d) == "RESPONDING"

\* decision["action"], as the branches of the loop body read it
ActionOf(d) == IF IsDict(d) /\ Has(d, "action") THEN d.action ELSE None

\* Step 2: one pass of the while body.
Iteration ==
    /\ pc = "LOOPING"
    /\ ShouldContinue(context)
    /\ LET c1 == IncrementLoopCount(context)
           st0 == [stats EXCEPT !.iterations = @ + 1,
                                !.decide_calls = @ + 1]
       IN  IF SummaryRaises(c1)
           THEN NoToolBranch(c1, "none", NonDict, NoView, st0, "RAISED",
                             Raised("KeyError: context_summary"))
           ELSE \E llm \in LLMOutcomes(DecisionValues) :
                 LET d == DecideNextAction(llm)
                     view == ContextSummary(c1)
                     st == [st0 EXCEPT !.decisions = @ + 1,
                                       !.actions = Append(@, ActionOf(d))]
                 IN  CASE ~IsDict(d) ->
                            NoToolBranch(c1, llm.kind, d, view, st, "RAISED",
                                         Raised("AttributeError: get"))
                       [] IsDict(d) /\ ~Has(d, "action") ->
                            NoToolBranch(c1, llm.kind, d, view, st, "RAISED",
                                         Raised("KeyError: action"))
                       [] IsDict(d) /\ Has(d, "action")
                              /\ d.action = "call_weather_api" ->
                            ToolBranch(c1, llm.kind, d, view, st, "weather_api",
                                       WeatherParams(d, c1.query_analysis))
                       [] IsDict(d) /\ Has(d, "action")
                              /\ d.action = "call_activity_api" ->
                            IF Has(d, "params")
                            THEN ToolBranch(c1, llm.kind, d, view, st, "activity_api",
                                            d.params)
                            ELSE NoToolBranch(c1, llm.kind, d, view, st, "RAISED",
                                              Raised("KeyError: params"))
                       [] OTHER ->
                            NoToolBranch(c1, llm.kind, d, view, st,
                                         AfterOtherAction(d), ret)
    /\ UNCHANGED mcp_server_process

\* The while test fails: the loop bound is reached.
LoopExit ==
    /\ pc = "LOOPING"
    /\ ~ShouldContinue(context)
    /\ pc' = "RESPONDING"
    /\ UNCHANGED <<mcp_server_process, context, ret, last, stats>>

\* Step 3: generate_final_response.
Respond ==
    /\ pc = "RESPONDING"
    /\ IF GenerateRaises(context)
       THEN pc' = "RAISED" /\ ret' = Raised("KeyError: response")
       ELSE pc' = "DONE" /\ ret' = FinalResponse(context)
    /\ stats' = [stats EXCEPT !.synth = @ + 1]
    /\ UNCHANGED <<mcp_server_process, context, last>>

TurnStep == Analyze \/ Validate \/ Iteration \/ LoopExit \/ Respond

----------------------------------------------------------------------------
(* mcp_client.py: one MCPClient instance *)

\* Request ids the model lets one instance consume.
MaxRequestId == 3

\* How the provider answers the initialize request.
HandshakeOutcomes ==
    {"result", "error_response", "empty_line", "not_json",
     "write_exception", "notify_exception"}

\* How one tools/call exchange goes.
GwCallOutcomes ==
    { [kind |-> "write_exception"], [kind |-> "empty_line"],
      [kind |-> "not_json"], [kind |-> "no_result"],
      [kind |-> "no_text"], [kind |-> "text_not_json"] }
        \cup { [kind |-> "result", payload |-> p] : p \in {WOk, WFail, NonDict} }

\* _create_jsonrpc_request: a line with an id; `ready` notes whether the
\* handshake had succeeded on the subprocess the line is written to.
JsonRpcRequest(id, method, ready) ==
    [method |-> method, id |-> id, ready |-> ready]
\* _create_jsonrpc_notification: a line without id.
JsonRpcNotification(method, ready) == [method |-> method, ready |-> ready]

\* Mutant of HandshakeOk: any JSON response counts as a success.
HandshakeOkAnyResponse(hs) == hs \in {"result", "error_response"}

\* initialize_connection: True exactly when the response has a result and
\* the notification went out.
HandshakeOk(hs) == hs = "result"

\* initialize_connection without a subprocess: _send_request raises.
HandshakeOutcome(has_process, hs) ==
    IF has_process THEN hs ELSE "write_exception"

\* Mutant of HandshakeReads: the response to initialize is left unread.
HandshakeReadsNothing(has_process, hs) == 0

\* initialize_connection: the lines read with _read_response.
HandshakeReads(has_process, hs) ==
    IF ~has_process \/ hs = "write_exception" THEN 0 ELSE 1

\* initialize_connection: the lines that reach the provider.
HandshakeWrites(id, has_process, ready, hs) ==
    IF ~has_process \/ hs = "write_exception"
    THEN <<>>
    ELSE <<JsonRpcRequest(id, "initialize", ready)>>
         \o (IF hs = "result"
             THEN <<JsonRpcNotification("notifications/initialized", ready)>>
             ELSE <<>>)

\* The stdout pipe of a new subprocess; `answered` turns FALSE when the
\* provider leaves a request without a response line.
NewPipe == [unread |-> <<>>, answered |-> TRUE]

\* The pipe after the provider has seen `lines`: one response per line that
\* has an id, none for a notification, none at all when it stays silent.
Answered(pipe, lines, outcome) ==
    IF lines = <<>> THEN pipe
    ELSE IF outcome = "empty_line" THEN [pipe EXCEPT !.answered = FALSE]
    ELSE LET requests == SelectSeq(lines, LAMBDA l : "id" \in DOMAIN l)
         IN  [pipe EXCEPT !.unread =
                 @ \o [i \in DOMAIN requests |-> requests[i]["id"]]]

\* _read_response: n calls of readline take the first n lines of the pipe.
\* `lines` are the ids read, `pipe` is what is left.
ReadLines(pipe, n) ==
    LET taken == Min(n, Len(pipe.unread))
    IN  [lines |-> SubSeq(pipe.unread, 1, taken),
         pipe |-> [pipe EXCEPT !.unread = SubSeq(@, taken + 1, Len(@))]]

\* call_tool: the guard `if not self.process`.
CallToolRefused == gw_process = None

\* What call_tool hands back when an exception leaves it.
GwRaised(what) == [raised |-> what]

\* Mutant of CallToolResult: the nested payload is read outside the try.
CallToolResultUnguarded(out) ==
    CASE out.kind = "result" -> out.payload
      [] out.kind = "no_result" ->
            [error |-> "Invalid MCP response", response |-> "response_data"]
      [] out.kind \in {"no_text", "text_not_json"} -> GwRaised(out.kind)
      [] OTHER -> [error |-> "MCP tool call failed"]

\* call_tool: the value handed back for one exchange.  Every failure of the
\* write, the read, the subscripts and json.loads is caught by the except.
CallToolResult(out) ==
    CASE out.kind = "result" -> out.payload
      [] out.kind = "no_result" ->
            [error |-> "Invalid MCP response", response |-> "response_data"]
      [] OTHER -> [error |-> "MCP tool call failed"]

GwInit ==
    /\ gw_process = None
    /\ gw_request_id = 0
    /\ gw_ready = FALSE
    /\ gw_wire = <<>>
    /\ gw_stdout = NewPipe
    /\ gw_ret = [op |-> "none"]
    /\ gw_terminations = <<>>

\* start_server: Popen, then initialize_connection on the new subprocess.
GwStartServer ==
    /\ gw_request_id < MaxRequestId
    /\ \E popen_ok \in BOOLEAN, hs \in HandshakeOutcomes :
           IF popen_ok
           THEN /\ gw_process' = "proc"
                /\ gw_request_id' = gw_request_id + 1
                /\ gw_wire' = gw_wire \o
                       HandshakeWrites(gw_request_id + 1, TRUE, FALSE, hs)
                /\ gw_ready' = HandshakeOk(hs)
                /\ LET wrote == HandshakeWrites(gw_request_id + 1,
                                                TRUE, FALSE, hs)
                       pipe == Answered(NewPipe, wrote, hs)
                       reads == HandshakeReads(TRUE, hs)
                   IN  /\ gw_stdout' = ReadLines(pipe, reads).pipe
                       /\ gw_ret' = [op |-> "start_server",
                                     ok |-> HandshakeOk(hs),
                                     hs |-> HandshakeOutcome(TRUE, hs),
                                     wrote |-> wrote,
                                     reads |-> reads,
                                     id |-> gw_request_id + 1,
                                     read |-> ReadLines(pipe, reads).lines]
                /\ gw_terminations' = Append(gw_terminations, 0)
           ELSE /\ gw_ret' = [op |-> "start_server", ok |-> FALSE]
                /\ UNCHANGED <<gw_process, gw_request_id, gw_wire, gw_ready,
                               gw_stdout, gw_terminations>>

\* initialize_connection called on its own, on whatever process is held.
GwInitializeConnection ==
    /\ gw_request_id < MaxRequestId
    /\ \E hs \in HandshakeOutcomes :
           LET ok == gw_process # None /\ HandshakeOk(hs)
           IN  /\ gw_request_id' = gw_request_id + 1
               /\ gw_wire' = gw_wire \o
                      HandshakeWrites(gw_request_id + 1, gw_process # None,
                                      gw_ready, hs)
               /\ gw_ready' = ok
               /\ LET wrote == HandshakeWrites(gw_request_id + 1,
                                               gw_process # None, gw_ready, hs)
                      pipe == Answered(gw_stdout, wrote, hs)
                      reads == HandshakeReads(gw_process # None, hs)
                  IN  /\ gw_stdout' = ReadLines(pipe, reads).pipe
                      /\ gw_ret' = [op |-> "initialize_connection",
                                    ok |-> ok,
                                    hs |-> HandshakeOutcome(gw_process # None,
                                                            hs),
                                    wrote |-> wrote,
                                    reads |-> reads,
                                    id |-> gw_request_id + 1,
                                    read |-> ReadLines(pipe, reads).lines]
    /\ UNCHANGED <<gw_process, gw_terminations>>

\* call_tool: refuse without a process, else one request and one read.
GwCallTool ==
    \E tool_name \in {"weather_api", "activity_api"} :
        IF CallToolRefused
        THEN /\ gw_ret' = [op |-> "call_tool", wrote |-> 0,
                           kind |-> "refused", id |-> 0, read |-> <<>>,
                           value |-> [error |-> "MCP server not started"]]
             /\ UNCHANGED <<gw_process, gw_request_id, gw_wire, gw_ready,
                            gw_stdout, gw_terminations>>
        ELSE /\ gw_request_id < MaxRequestId
             /\ \E out \in GwCallOutcomes :
                    LET wrote == IF out.kind = "write_exception" THEN 0 ELSE 1
                        line == JsonRpcRequest(gw_request_id + 1,
                                               "tools/call", gw_ready)
                        pipe == Answered(gw_stdout,
                                         IF wrote = 1 THEN <<line>> ELSE <<>>,
                                         out.kind)
                    IN  /\ gw_request_id' = gw_request_id + 1
                        /\ gw_stdout' = ReadLines(pipe, wrote).pipe
                        /\ gw_wire' =
                               IF wrote = 1
                               THEN Append(gw_wire,
                                      Put(JsonRpcRequest(gw_request_id + 1,
                                              "tools/call", gw_ready),
                                          "name", tool_name))
                               ELSE gw_wire
                        /\ gw_ret' = [op |-> "call_tool", wrote |-> wrote,
                                      kind |-> out.kind,
                                      id |-> gw_request_id + 1,
                                      read |-> ReadLines(pipe, wrote).lines,
                                      value |-> CallToolResult(out)]
             /\ UNCHANGED <<gw_process, gw_ready, gw_terminations>>

\* terminate() on the subprocess held: the latest one spawned.
Terminate(terminations) ==
    [terminations EXCEPT ![Len(terminations)] = @ + 1]

\* Mutant of GwShutdown: the handle is kept after terminate().
GwShutdownKeepsHandle ==
    /\ gw_terminations' = IF gw_process # None
                          THEN Terminate(gw_terminations)
                          ELSE gw_terminations
    /\ gw_ret' = [op |-> "shutdown", terminated |-> gw_process # None]
    /\ UNCHANGED <<gw_process, gw_ready, gw_request_id, gw_wire, gw_stdout>>

\* shutdown (also run by __del__): terminate and drop the handle, if one is
\* held; nothing at all otherwise.
GwShutdown ==
    /\ gw_process' = None
    /\ gw_ready' = FALSE
    /\ gw_terminations' = IF gw_process # None
                          THEN Terminate(gw_terminations)
                          ELSE gw_terminations
    /\ gw_ret' = [op |-> "shutdown", terminated |-> gw_process # None]
    /\ gw_stdout' = NewPipe
    /\ UNCHANGED <<gw_request_id, gw_wire>>

----------------------------------------------------------------------------
(* utils/context_builders.py and utils/data_extractors.py: pure functions *)

\* JSON null where an object is expected.
NullObj == [null |-> TRUE]
IsNull(v) == "null" \in DOMAIN v
\* What a function hands back when an exception leaves it.
UtilRaised(what) == [raised |-> what]
\* A function that returned None.
ReturnedNone == [returned_none |-> TRUE]

\* add_weather_data: the result replaces the stored one; the tool name is
\* appended only when it is not in tools_called yet.
AddWeatherData(c, weather_result) ==
    LET c1 == Put(c, "weather_data", weather_result)
    IN  IF \E i \in DOMAIN c1.tools_called : c1.tools_called[i] = "weather_api"
        THEN c1
        ELSE [c1 EXCEPT !.tools_called = Append(@, "weather_api")]

\* add_activity_data: append to activity_data_list, keep the latest.
AddActivityData(c, activity_result) ==
    LET list == Get(c, "activity_data_list", <<>>)
    IN  [Put(Put(c, "activity_data_list", Append(list, activity_result)),
             "activity_data", activity_result)
            EXCEPT !.tools_called = Append(@, "activity_api")]

\* build_initial_context
BuildInitialContext(query, query_analysis, max_loops) ==
    [query |-> query, query_analysis |-> query_analysis,
     tools_called |-> <<>>, loop_count |-> 0, max_loops |-> max_loops]

\* build_weather_params: the engine's params, with target_date taken from
\* the analysis when the key time_context is in it, else "tomorrow".
BuildWeatherParams(decision, query_analysis) ==
    LET weather_params == Get(decision, "params", EmptyDict)
    IN  IF ~Has(weather_params, "target_date") /\ Has(query_analysis, "time_context")
        THEN Put(weather_params, "target_date", query_analysis.time_context)
        ELSE IF ~Has(weather_params, "target_date")
             THEN Put(weather_params, "target_date", "tomorrow")
             ELSE weather_params

\* The three fields extract_unique_activities_for_response keeps.
ActivityFields(activity) ==
    [name |-> activity.name, category |-> activity.category,
     description |-> activity.description]

\* extract_unique_activities_for_response
ExtractUniqueActivitiesForResponse(activity_data_list, limit) ==
    IF activity_data_list = <<>>
    THEN <<>>
    ELSE LET u == UniqueByName(AllActivities(activity_data_list), {})
             unique_activities == [i \in 1 .. Len(u) |-> ActivityFields(u[i])]
         IN  SubSeq(unique_activities, 1, Min(limit, Len(unique_activities)))

\* Mutant of TargetDayIndex: always the first day of the forecast.
TargetDayIndexFirst(forecast, target_date_str) == 1

\* extract_for_response_generation: index of the forecast day reported: the
\* first whose date is target_date_str, else the first day.
TargetDayIndex(forecast, target_date_str) ==
    IF Truthy(target_date_str)
           /\ \E i \in DOMAIN forecast : forecast[i].date = target_date_str
    THEN CHOOSE i \in DOMAIN forecast :
             /\ forecast[i].date = target_date_str
             /\ \A j \in 1 .. i - 1 : forecast[j].date # target_date_str
    ELSE 1

\* extract_for_response_generation
ExtractForResponseGeneration(weather_data) ==
    IF ~GetSuccess(weather_data)
    THEN ReturnedNone
    ELSE LET forecast == Get(weather_data, "forecast", <<>>)
             target_date_info == Get(weather_data, "target_date", EmptyDict)
         IN  IF forecast = <<>>
             THEN ReturnedNone
             ELSE IF IsNull(target_date_info)
             THEN UtilRaised("AttributeError: 'NoneType' has no attribute 'get'")
             ELSE LET target_date_str == Get(target_date_info, "resolved", None)
                      day == forecast[TargetDayIndex(forecast, target_date_str)]
                  IN  IF ~(Has(weather_data, "location")
                             /\ Has(weather_data.location, "name")
                             /\ DayComplete(day))
                      THEN UtilRaised("KeyError")
                      ELSE [location |-> weather_data.location.name,
                            target_date |->
                                Get(target_date_info, "requested", "unknown"),
                            condition |-> day.day_summary.condition,
                            temp_range |-> <<day.day_summary.min_temp_c,
                                             day.day_summary.max_temp_c>>,
                            rain_chance |-> day.day_summary.chance_of_rain,
                            date_found |->
                                IF Truthy(target_date_str)
                                THEN day.date = target_date_str
                                ELSE TRUE]

\* extract_for_response_context
ExtractForResponseContext(c) ==
    LET weather_data ==
            IF Has(c, "weather_data")
            THEN ExtractForResponseGeneration(c.weather_data)
            ELSE ReturnedNone
    IN  IF Has(weather_data, "raised")
        THEN weather_data
        ELSE [original_query |-> Get(c, "query", None),
              user_preferences |-> Get(c, "query_analysis", EmptyDict),
              weather_data |-> weather_data,
              activities |->
                  IF Has(c, "activity_data_list")
                  THEN ExtractUniqueActivitiesForResponse(
                           c.activity_data_list, DefaultLimit)
                  ELSE <<>>,
              errors |-> ExtractErrorsFromContext(c)]

\* extract_for_decision_context, with the two extract_for_decision_making
\* summaries it puts under data_collected.
ExtractForDecisionContext(c) ==
    LET w == c.weather_data
        a == c.activity_data
        weather_raises ==
            /\ Has(c, "weather_data") /\ GetSuccess(w)
            /\ Get(w, "forecast", <<>>) # <<>>
            /\ ~ ( /\ Has(w, "location") /\ Has(w.location, "name")
                   /\ Has(w, "current") /\ Has(w.current, "condition")
                   /\ Has(w.forecast[1], "day_summary")
                   /\ Has(w.forecast[1].day_summary, "condition") )
        activity_raises ==
            /\ Has(c, "activity_data") /\ GetSuccess(a)
            /\ ~ ( /\ Has(a, "total_results") /\ Has(a, "query_parameters")
                   /\ Has(a.query_parameters, "resolved_activity_type") )
        weather_summary ==
            IF ~GetSuccess(w) THEN [error |-> Get(w, "error", None)]
            ELSE IF Get(w, "forecast", <<>>) = <<>>
            THEN [error |-> "no_forecast"]
            ELSE [location |-> w.location.name,
                  current_condition |-> w.current.condition,
                  tomorrow_forecast |-> w.forecast[1].day_summary.condition]
        activity_summary ==
            IF ~GetSuccess(a) THEN [error |-> Get(a, "error", None)]
            ELSE [count |-> a.total_results,
                  type |-> a.query_parameters.resolved_activity_type,
                  data_source |-> Get(a, "data_source", "unknown"),
                  activities |-> Get(a, "activities", <<>>)]
    IN  IF weather_raises \/ activity_raises
        THEN UtilRaised("KeyError")
        ELSE [original_query |-> c.query,
              extracted_info |-> Get(c, "query_analysis", EmptyDict),
              tools_used |-> Get(c, "tools_called", <<>>),
              data_collected |->
                  (IF Has(c, "weather_data")
                   THEN [weather |-> weather_summary] ELSE EmptyDict)
                  @@
                  (IF Has(c, "activity_data")
                   THEN [activities |-> activity_summary] ELSE EmptyDict)]

----------------------------------------------------------------------------
(* Two agent instances, as two UI sessions hold them (app.py): each object
   has its own attributes, and the context is a local of its agent_loop. *)

\* Subprocesses the model lets the instances launch, and tool calls it lets
\* one turn make.
MaxSpawns == 3
MaxFleetCalls == 2

Instances == {1, 2}

\* Mutant of Self: the attributes are the class's, one slot for all.
SelfShared(i) == 1

\* The object `self` names inside a method of instance i.
Self(i) == i

\* __init__: no subprocess, request id 0; no turn has run.
FleetInit ==
    fleet = [agent |-> [i \in Instances |->
                          [process |-> 0, request_id |-> 0,
                           context |-> EmptyDict]],
             spawned |-> 0, alive |-> {}, actor |-> 0]

\* start_mcp_server / start_server: Popen, the handle kept on self; the
\* handshake takes one request id.
FleetStart(i) ==
    /\ fleet.spawned < MaxSpawns
    /\ fleet.agent[Self(i)].request_id < MaxRequestId
    /\ fleet' = [fleet EXCEPT
           !.agent[Self(i)].process = fleet.spawned + 1,
           !.agent[Self(i)].request_id = @ + 1,
           !.spawned = @ + 1,
           !.alive = @ \cup {fleet.spawned + 1},
           !.actor = i]

\* agent_loop is entered: a new context literal.
FleetStartTurn(i) ==
    /\ \E q \in Queries :
           fleet' = [fleet EXCEPT
               !.agent[Self(i)].context =
                   [query |-> q, tools_called |-> <<>>, loop_count |-> 0],
               !.actor = i]

\* One iteration with a tool call: a request on the instance's own pipe when
\* it has a subprocess, and the result recorded in the turn's context.
FleetCallTool(i) ==
    LET me == fleet.agent[Self(i)]
    IN  /\ me.context # EmptyDict
        /\ me.context.loop_count < MaxFleetCalls
        /\ me.request_id < MaxRequestId
        /\ \E tool_name \in {"weather_api", "activity_api"} :
               fleet' = [fleet EXCEPT
                   !.agent[Self(i)].request_id =
                       IF me.process # 0 THEN @ + 1 ELSE @,
                   !.agent[Self(i)].context =
                       [@ EXCEPT !.loop_count = @ + 1,
                                 !.tools_called = Append(@, tool_name)],
                   !.actor = i]

\* shutdown / __del__: terminate the subprocess held, drop the handle.
FleetShutdown(i) ==
    LET me == fleet.agent[Self(i)]
    IN  fleet' = [fleet EXCEPT
            !.agent[Self(i)].process = 0,
            !.alive = @ \ {me.process},
            !.actor = i]

----------------------------------------------------------------------------
(* utils/date_utils.py: parse_target_date (mcp_server.py has the same text) *)

\* A Python str is the sequence of its characters; None is PyNone.
PyNone == [none |-> TRUE]
PyStr(chars) == [str |-> chars]
IsNone(v) == "none" \in DOMAIN v

\* The cased letters str.lower() maps.
Letters ==
    [upper |->
        <<"A", "B", "C", "D", "E", "F", "G", "H", "I", "J", "K", "L", "M",
          "N", "O", "P", "Q", "R", "S", "T", "U", "V", "W", "X", "Y", "Z">>,
     lower |->
        <<"a", "b", "c", "d", "e", "f", "g", "h", "i", "j", "k", "l", "m",
          "n", "o", "p", "q", "r", "s", "t", "u", "v", "w", "x", "y", "z">>]

\* str.lower(), one character
LowerChar(ch) ==
    IF \E i \in DOMAIN Letters.upper : Letters.upper[i] = ch
    THEN Letters.lower[CHOOSE i \in DOMAIN Letters.upper : Letters.upper[i] = ch]
    ELSE ch

\* str.lower()
Lower(chars) == [i \in DOMAIN chars |-> LowerChar(chars[i])]

Digits == <<"0", "1", "2", "3", "4", "5", "6", "7", "8", "9">>

\* int() of a str of digits
RECURSIVE Number(_)
Number(chars) ==
    IF chars = <<>> THEN 0
    ELSE Number(SubSeq(chars, 1, Len(chars) - 1)) * 10
             + (CHOOSE i \in DOMAIN Digits :
                    Digits[i] = chars[Len(chars)]) - 1

AllDigits(chars) ==
    \A i \in DOMAIN chars : \E j \in DOMAIN Digits : Digits[j] = chars[i]

\* datetime.date: proleptic Gregorian calendar
DaysInMonth(year, month) ==
    IF month = 2
    THEN (IF year % 4 = 0 /\ (year % 100 # 0 \/ year % 400 = 0)
          THEN 29 ELSE 28)
    ELSE IF month \in {4, 6, 9, 11} THEN 30 ELSE 31

Date(year, month, day) == [year |-> year, month |-> month, day |-> day]

RECURSIVE DaysBeforeMonth(_, _)
DaysBeforeMonth(year, month) ==
    IF month = 1 THEN 0
    ELSE DaysBeforeMonth(year, month - 1) + DaysInMonth(year, month - 1)

\* date.toordinal()
ToOrdinal(d) ==
    LET y == d.year - 1
    IN  y * 365 + (y \div 4) - (y \div 100) + (y \div 400)
            + DaysBeforeMonth(d.year, d.month) + d.day

\* date.weekday(): Monday is 0, Saturday 5, Sunday 6
Weekday(d) == (ToOrdinal(d) + 6) % 7

NextDay(d) ==
    IF d.day < DaysInMonth(d.year, d.month)
    THEN Date(d.year, d.month, d.day + 1)
    ELSE IF d.month < 12
         THEN Date(d.year, d.month + 1, 1)
         ELSE Date(d.year + 1, 1, 1)

\* date + timedelta(days=n), n >= 0
RECURSIVE PlusDays(_, _)
PlusDays(d, n) == IF n = 0 THEN d ELSE PlusDays(NextDay(d), n - 1)

\* What datetime.strptime(text, "%Y-%m-%d") answers with.
ValueError == [value_error |-> TRUE]

\* The month or day field of the format: one or two digits, not zero.
FieldOk(chars, max) ==
    /\ Len(chars) \in {1, 2}
    /\ AllDigits(chars)
    /\ Number(chars) \in 1 .. max

\* datetime.strptime(text, "%Y-%m-%d").date(): four digits of year, "-",
\* month, "-", day, nothing else; then the date must exist.
Strptime(chars) ==
    LET n == Len(chars)
        dash2 == IF n >= 7 /\ chars[7] = "-" THEN 7 ELSE 8
    IN  IF /\ n \in 8 .. 10
           /\ AllDigits(SubSeq(chars, 1, 4))
           /\ chars[5] = "-"
           /\ dash2 < n
           /\ chars[dash2] = "-"
           /\ FieldOk(SubSeq(chars, 6, dash2 - 1), 12)
           /\ FieldOk(SubSeq(chars, dash2 + 1, n), 31)
        THEN LET year == Number(SubSeq(chars, 1, 4))
                 month == Number(SubSeq(chars, 6, dash2 - 1))
                 day == Number(SubSeq(chars, dash2 + 1, n))
             IN  IF year >= 1 /\ day <= DaysInMonth(year, month)
                 THEN Date(year, month, day)
                 ELSE ValueError
        ELSE ValueError


\* The texts parse_target_date knows, and the description of its fallback.
Keyword ==
    [tomorrow |->
         <<"t", "o", "m", "o", "r", "r", "o", "w">>,
     tmrw |->
         <<"t", "m", "r", "w">>,
     today |->
         <<"t", "o", "d", "a", "y">>,
     this_weekend |->
         <<"t", "h", "i", "s", " ", "w", "e", "e", "k", "e", "n", "d">>,
     weekend |->
         <<"w", "e", "e", "k", "e", "n", "d">>,
     next_week |->
         <<"n", "e", "x", "t", " ", "w", "e", "e", "k">>,
     next_monday |->
         <<"n", "e", "x", "t", " ", "m", "o", "n", "d", "a", "y">>,
     tomorrow_default |->
         <<"t", "o", "m", "o", "r", "r", "o", "w", " ", "(", "d", "e", "f",
         "a", "u", "l", "t", ")">>]

\* `not target_date`
Falsy(target_date) == IsNone(target_date) \/ target_date.str = <<>>

\* Mutant of DaysUntilSaturday: a Sunday counted as the day before Saturday.
DaysUntilSaturdayAbs(weekday) == IF weekday <= 5 THEN 5 - weekday ELSE weekday - 5

\* (5 - today.weekday()) % 7
DaysUntilSaturday(weekday) == (5 - weekday) % 7

\* Mutant of DaysUntilMonday: counted from the day after today.
DaysUntilMondayOffByOne(weekday) == (8 - weekday) % 7

\* (7 - today.weekday()) % 7
DaysUntilMonday(weekday) == (7 - weekday) % 7

\* Mutant of ParseLiteral: a date that does not parse keeps the description.
ParseLiteralUnmarked(target_date, today) ==
    LET parsed == Strptime(target_date.str)
    IN  IF parsed = ValueError
        THEN [date |-> PlusDays(today, 1), description |-> target_date]
        ELSE [date |-> parsed, description |-> target_date]

\* parse_target_date, the else branch: strptime inside try/except ValueError.
ParseLiteral(target_date, today) ==
    LET parsed == Strptime(target_date.str)
    IN  IF parsed = ValueError
        THEN [date |-> PlusDays(today, 1),
              description |-> PyStr(Keyword.tomorrow_default)]
        ELSE [date |-> parsed, description |-> target_date]

\* parse_target_date(target_date) when datetime.now().date() is `today`
ParseTargetDate(target_date, today) ==
    LET description == IF Falsy(target_date) THEN PyStr(Keyword.tomorrow)
                       ELSE target_date
        lower == IF Falsy(target_date) THEN <<>> ELSE Lower(target_date.str)
    IN  IF Falsy(target_date) \/ lower \in {Keyword.tomorrow, Keyword.tmrw}
        THEN [date |-> PlusDays(today, 1), description |-> description]
        ELSE IF lower = Keyword.today
        THEN [date |-> today, description |-> description]
        ELSE IF lower \in {Keyword.this_weekend, Keyword.weekend}
        THEN LET days_until_saturday == DaysUntilSaturday(Weekday(today))
             IN  IF days_until_saturday = 0 /\ Weekday(today) = 5
                 THEN [date |-> today, description |-> description]
                 ELSE [date |-> PlusDays(today,
                                   IF days_until_saturday > 0
                                   THEN days_until_saturday ELSE 6),
                       description |-> description]
        ELSE IF lower \in {Keyword.next_week, Keyword.next_monday}
        THEN LET days_until_monday == DaysUntilMonday(Weekday(today))
             IN  [date |-> PlusDays(today,
                                    IF days_until_monday > 0
                                    THEN days_until_monday ELSE 7),
                  description |-> description]
        ELSE ParseLiteral(target_date, today)

----------------------------------------------------------------------------
(* The utils/ functions applied to arguments drawn from bounded sets *)

\* Longest activity_data_list drawn.
MaxListLen == 3
\* Most recordings made on one builder context.
MaxBuilderCalls == 3

\* One more activity than the response shows, all names distinct.
ManyActivities ==
    [i \in 1 .. (ResponseLimit + 1) |->
        [name |-> ToString(i), category |-> "many", description |-> "m"]]

ABC ==
    [success |-> TRUE,
     activities |->
         <<[name |-> "B", category |-> "park", description |-> "b2"],
           [name |-> "C", category |-> "food", description |-> "c"]>>]
ACase ==
    [success |-> TRUE,
     activities |->
         <<[name |-> "a", category |-> "culture", description |-> "lower"],
           ActA>>]
AMany == [success |-> TRUE, activities |-> ManyActivities]

ActivityResults ==
    {AOk, ABC, ACase, AMany, [success |-> TRUE, activities |-> <<>>], AFail}

ActivityLists ==
    UNION { [1 .. n -> ActivityResults] : n \in 0 .. MaxListLen }

DayRain ==
    [date |-> "2025-09-08",
     day_summary |-> [condition |-> "Rain", min_temp_c |-> 8,
                      max_temp_c |-> 15, chance_of_rain |-> 90]]

\* The key target_date of a weather result: absent, null (get_forecast
\* without a target date), or the object get_forecast builds.
AbsentField == [absent |-> TRUE]
TargetDates ==
    { AbsentField, NullObj,
      [requested |-> "tomorrow"],
      [requested |-> "tomorrow", resolved |-> None] }
        \cup { [requested |-> "a date", resolved |-> d] :
                   d \in {"2025-09-07", "2025-09-08", "2025-09-09"} }

WeatherResultOf(forecast, target_date) ==
    [success |-> TRUE, location |-> [name |-> "Sydney"],
     current |-> [condition |-> "Cloudy"], forecast |-> forecast]
    @@ (IF target_date = AbsentField
        THEN EmptyDict
        ELSE [target_date |-> target_date])

WeatherResults ==
    {WFail} \cup { WeatherResultOf(f, t) : f \in {<<>>, <<DaySunny>>, <<DaySunny, DayRain>>,
                          <<DayRain, DaySunny>>},
        t \in TargetDates }

WeatherDecisions ==
    { [action |-> "call_weather_api"],
      [action |-> "call_weather_api", params |-> [location |-> "Sydney"]],
      [action |-> "call_weather_api",
       params |-> [location |-> "Sydney", target_date |-> "2025-09-07"]],
      [action |-> "call_weather_api",
       params |-> [location |-> "Sydney", include_hourly |-> FALSE]] }

Analyses ==
    { [location |-> "Sydney", time_context |-> "today"],
      [location |-> "Sydney", time_context |-> None],
      [location |-> "Sydney"] }

\* Texts a caller passes: as target_date, and as weather_condition.
Text ==
    [tomorrow_capital |->
         <<"T", "o", "m", "o", "r", "r", "o", "w">>,
     today_upper |->
         <<"T", "O", "D", "A", "Y">>,
     this_weekend_title |->
         <<"T", "h", "i", "s", " ", "W", "e", "e", "k", "e", "n", "d">>,
     weekend_upper |->
         <<"W", "E", "E", "K", "E", "N", "D">>,
     next_week_title |->
         <<"N", "e", "x", "t", " ", "W", "e", "e", "k">>,
     next_monday_upper |->
         <<"N", "E", "X", "T", " ", "M", "O", "N", "D", "A", "Y">>,
     next_friday |->
         <<"n", "e", "x", "t", " ", "f", "r", "i", "d", "a", "y">>,
     first_of_march |->
         <<"2", "0", "2", "5", "-", "0", "3", "-", "0", "1">>,
     first_of_march_short |->
         <<"2", "0", "2", "5", "-", "3", "-", "1">>,
     leap_day |->
         <<"2", "0", "2", "4", "-", "0", "2", "-", "2", "9">>,
     no_leap_day |->
         <<"2", "0", "2", "5", "-", "0", "2", "-", "2", "9">>,
     month_thirteen |->
         <<"2", "0", "2", "5", "-", "1", "3", "-", "0", "1">>,
     year_zero |->
         <<"0", "0", "0", "0", "-", "0", "1", "-", "0", "1">>,
     slash_date |->
         <<"0", "3", "/", "0", "1", "/", "2", "0", "2", "5">>,
     light_rain |->
         <<"L", "i", "g", "h", "t", " ", "R", "a", "i", "n">>,
     sunny |->
         <<"S", "u", "n", "n", "y">>,
     cloudy |->
         <<"C", "l", "o", "u", "d", "y">>,
     sunny_showers |->
         <<"S", "u", "n", "n", "y", ",", " ", "s", "h", "o", "w", "e", "r",
         "s">>,
     trailing_space |->
         <<"2", "0", "2", "5", "-", "0", "3", "-", "0", "1", " ">>]


TargetDateTexts ==
    {PyNone, PyStr(<<>>)} \cup
    { PyStr(t) : t \in
        {Keyword.tomorrow, Text.tomorrow_capital, Keyword.tmrw, Keyword.today, Text.today_upper,
         Keyword.this_weekend, Text.this_weekend_title, Keyword.weekend, Text.weekend_upper,
         Keyword.next_week, Text.next_week_title, Keyword.next_monday, Text.next_monday_upper,
         Text.next_friday, Text.first_of_march, Text.first_of_march_short, Text.leap_day, Text.no_leap_day,
         Text.month_thirteen, Text.year_zero, Text.slash_date, Text.trailing_space} }

\* datetime.now().date(): a Monday and the days after it, over a month's end.
MaxDaysAhead == 6
Todays == { PlusDays(Date(2025, 2, 24), k) : k \in 0 .. MaxDaysAhead }

\* date.strftime("%Y-%m-%d")
RECURSIVE ZeroPadded(_, _)
ZeroPadded(n, width) ==
    IF width = 0 THEN <<>>
    ELSE Append(ZeroPadded(n \div 10, width - 1), Digits[(n % 10) + 1])

Strftime(d) ==
    ZeroPadded(d.year, 4) \o <<"-">> \o ZeroPadded(d.month, 2)
        \o <<"-">> \o ZeroPadded(d.day, 2)

\* `word in text` on two str
Contains(text, word) ==
    \E i \in 1 .. (Len(text) - Len(word) + 1) :
        SubSeq(text, i, i + Len(word) - 1) = word

----------------------------------------------------------------------------
(* The tool provider: tools/weather_tool.py with
   api_clients/weather_client.py, and tools/activity_tool.py *)

DefaultForecastDays == 7
ActivityLimit == 8
BothHalf == 4
MaxProviderDays == 10

\* WeatherAPIClient.get_forecast: env.api_key says whether WEATHERAPI_KEY is
\* set, env.http how the request to the provider ends, env.today the date.
GetForecast(location, forecast_days, target_date, env) ==
    IF ~env.api_key
    THEN [success |-> FALSE, error |-> "Weather API key not configured"]
    ELSE IF env.http # "ok"
    THEN [success |-> FALSE, error |-> "Weather API error"]
    ELSE WeatherResultOf(<<DaySunny>>,
             IF Falsy(target_date) THEN NullObj
             ELSE LET date_info == ParseTargetDate(target_date, env.today)
                  IN  [requested |-> target_date,
                       resolved |-> PyStr(Strftime(date_info.date)),
                       description |-> date_info.description])

\* weather_api_tool(arguments): the request get_forecast sends to the
\* provider, if the tool gets that far.
ForecastRequest(arguments, env) ==
    LET location == Get(arguments, "location", None)
        forecast_days == Get(arguments, "forecast_days", DefaultForecastDays)
    IN  IF location \in {None, ""} \/ ~env.api_key
        THEN [sent |-> FALSE]
        ELSE [sent |-> TRUE, q |-> location,
              days |-> Min(forecast_days, MaxProviderDays)]

\* weather_api_tool(arguments)
WeatherApiTool(arguments, env) ==
    LET location == Get(arguments, "location", None)
        forecast_days == Get(arguments, "forecast_days", DefaultForecastDays)
        target_date == Get(arguments, "target_date", PyNone)
    IN  IF location \in {None, ""}
        THEN [error |-> "Location is required"]
        ELSE GetForecast(location, forecast_days, target_date, env)

\* Mutant of ResolvedType: the good-weather words are looked for first.
ResolvedTypeGoodFirst(activity_type, weather_condition) ==
    IF activity_type # "both" THEN activity_type
    ELSE IF \E word \in {<<"s", "u", "n", "n", "y">>,
                          <<"c", "l", "e", "a", "r">>, <<"f", "a", "i", "r">>} :
               Contains(weather_condition, word)
    THEN "outdoor"
    ELSE IF \E word \in {<<"r", "a", "i", "n">>, <<"s", "t", "o", "r", "m">>,
                          <<"s", "n", "o", "w">>,
                          <<"d", "r", "i", "z", "z", "l", "e">>,
                          <<"s", "h", "o", "w", "e", "r">>} :
               Contains(weather_condition, word)
    THEN "indoor"
    ELSE "both"

\* activity_api_tool: the type searched for
ResolvedType(activity_type, weather_condition) ==
    LET bad_weather ==
            {<<"r", "a", "i", "n">>, <<"s", "t", "o", "r", "m">>,
             <<"s", "n", "o", "w">>, <<"d", "r", "i", "z", "z", "l", "e">>,
             <<"s", "h", "o", "w", "e", "r">>}
        good_weather ==
            {<<"s", "u", "n", "n", "y">>, <<"c", "l", "e", "a", "r">>,
             <<"f", "a", "i", "r">>}
    IN  IF activity_type # "both" THEN activity_type
        ELSE IF \E word \in bad_weather : Contains(weather_condition, word)
        THEN "indoor"
        ELSE IF \E word \in good_weather : Contains(weather_condition, word)
        THEN "outdoor"
        ELSE "both"

Prefix(list, n) == SubSeq(list, 1, Min(n, Len(list)))

\* activity_api_tool(arguments): env.indoor and env.outdoor are what
\* search_places answers for each type, env.raises whether the search throws.
ActivityApiTool(arguments, env) ==
    LET location == Get(arguments, "location", "")
        condition == Get(arguments, "weather_condition", PyStr(<<>>))
        activity_type == Get(arguments, "activity_type", "both")
        category == Get(arguments, "category", None)
    IN  IF IsNone(condition) THEN UtilRaised("AttributeError")
        ELSE IF env.raises
        THEN [success |-> FALSE, error |-> "Activity API error"]
        ELSE
        LET weather_condition == Lower(condition.str)
            resolved_type == ResolvedType(activity_type, weather_condition)
            activities ==
                IF resolved_type = "indoor" THEN env.indoor
                ELSE IF resolved_type = "outdoor" THEN env.outdoor
                ELSE IF resolved_type = "both"
                THEN Prefix(env.indoor, BothHalf) \o Prefix(env.outdoor, BothHalf)
                ELSE <<>>
        IN  [success |-> TRUE,
             location |-> location,
             query_parameters |->
                 [weather_condition |-> PyStr(weather_condition),
                  requested_activity_type |-> activity_type,
                  resolved_activity_type |-> resolved_type,
                  category_filter |-> category],
             activities |-> Prefix(activities, ActivityLimit),
             total_results |-> Len(Prefix(activities, ActivityLimit)),
             data_source |-> IF activities # <<>> THEN "foursquare"
                             ELSE "none"]

\* Arguments and surroundings of the two tools.

WeatherToolArguments ==
    { EmptyDict,
      [location |-> ""],
      [location |-> "Sydney"],
      [location |-> "Sydney", forecast_days |-> 3],
      [location |-> "Sydney", forecast_days |-> 1],
      [location |-> "Sydney", forecast_days |-> 10],
      [location |-> "Sydney", forecast_days |-> 11],
      [location |-> "Sydney", forecast_days |-> 0],
      [location |-> "Sydney", forecast_days |-> -2],
      [location |-> "Sydney", target_date |-> PyStr(Keyword.weekend)],
      [location |-> "Sydney", target_date |-> PyStr(Text.next_friday)],
      [target_date |-> PyStr(Keyword.tomorrow)] }

ActivityToolArguments ==
    { EmptyDict, [location |-> "Sydney", weather_condition |-> PyNone] }
    \cup
    { [location |-> "Sydney", weather_condition |-> PyStr(c)] :
        c \in {<<>>, Text.light_rain, Text.sunny, Text.cloudy, Text.sunny_showers} }
    \cup
    { [location |-> "Sydney", weather_condition |-> PyStr(c),
       activity_type |-> t] :
        c \in {Text.light_rain, Text.sunny, Text.cloudy, Text.sunny_showers},
        t \in {"indoor", "outdoor", "both"} }

NoUtilCall == [fn |-> "none"]

UtilInputs ==
    { [fn |-> "extract_unique_activities_for_response",
       activity_data_list |-> l, done |-> FALSE] : l \in ActivityLists }
    \cup
    { [fn |-> "extract_for_response_generation",
       weather_data |-> w, done |-> FALSE] : w \in WeatherResults }
    \cup
    { [fn |-> "build_weather_params",
       decision |-> d, query_analysis |-> qa, done |-> FALSE] :
           d \in WeatherDecisions, qa \in Analyses }
    \cup
    { [fn |-> "context_builder",
       context |-> BuildInitialContext(q, qa, DefaultMaxLoops),
       weather_calls |-> 0, weather_result |-> NoResult,
       activity_log |-> <<>>,
       decision_view |-> NoView, response_view |-> NoView] :
           q \in Queries, qa \in Analyses }
    \cup
    { [fn |-> "parse_target_date",
       target_date |-> t, today |-> d, done |-> FALSE] :
           t \in TargetDateTexts, d \in Todays }
    \cup
    { [fn |-> "weather_api_tool", arguments |-> a,
       env |-> [api_key |-> k, http |-> h, today |-> d], done |-> FALSE] :
           a \in WeatherToolArguments, k \in BOOLEAN,
           h \in {"ok", "error"},
           d \in {Date(2025, 2, 24), Date(2025, 3, 1)} }
    \cup
    { [fn |-> "activity_api_tool", arguments |-> a,
       env |-> [indoor |-> i, outdoor |-> o, raises |-> r],
       done |-> FALSE] :
           a \in ActivityToolArguments,
           i \in {<<>>, <<ActA>>, Prefix(ManyActivities, ActivityLimit)},
           o \in {<<>>, <<ActB, ActA>>},
           r \in BOOLEAN }

UtilsInit == AgentInit /\ GwInit /\ FleetInit /\ util \in UtilInputs

\* extract_unique_activities_for_response on the list, next to what
\* generate_final_response shows for the same list.
ApplyExtractUniqueActivities ==
    /\ util.fn = "extract_unique_activities_for_response"
    /\ ~util.done
    /\ util' = [fn |-> util.fn,
                activity_data_list |-> util.activity_data_list,
                done |-> TRUE,
                out |-> ExtractUniqueActivitiesForResponse(
                            util.activity_data_list, DefaultLimit),
                agent_out |->
                    Shown([activity_data_list |-> util.activity_data_list])]
    /\ UNCHANGED <<agentVars, gwVars, fleet>>

ApplyExtractForResponseGeneration ==
    /\ util.fn = "extract_for_response_generation"
    /\ ~util.done
    /\ util' = [fn |-> util.fn, weather_data |-> util.weather_data,
                done |-> TRUE,
                out |-> ExtractForResponseGeneration(util.weather_data)]
    /\ UNCHANGED <<agentVars, gwVars, fleet>>

\* build_weather_params, next to the weather branch of agent_loop.
ApplyBuildWeatherParams ==
    /\ util.fn = "build_weather_params"
    /\ ~util.done
    /\ util' = [fn |-> util.fn, decision |-> util.decision,
                query_analysis |-> util.query_analysis,
                done |-> TRUE,
                out |-> BuildWeatherParams(util.decision, util.query_analysis),
                agent_out |-> WeatherParams(util.decision, util.query_analysis)]
    /\ UNCHANGED <<agentVars, gwVars, fleet>>

ApplyAddWeatherData ==
    /\ util.fn = "context_builder"
    /\ util.weather_calls + Len(util.activity_log) < MaxBuilderCalls
    /\ \E r \in {WeatherResultOf(<<DaySunny>>,
                       [requested |-> "tomorrow", resolved |-> "2025-09-07"]),
                   WFail, CallToolResult([kind |-> "write_exception"])} :
           LET c == AddWeatherData(util.context, r)
           IN  util' = [util EXCEPT
                   !.context = c,
                   !.weather_calls = @ + 1,
                   !.weather_result = r,
                   !.decision_view = ExtractForDecisionContext(c),
                   !.response_view = ExtractForResponseContext(c)]
    /\ UNCHANGED <<agentVars, gwVars, fleet>>

ApplyAddActivityData ==
    /\ util.fn = "context_builder"
    /\ util.weather_calls + Len(util.activity_log) < MaxBuilderCalls
    /\ \E r \in {AOk, AFail, CallToolResult([kind |-> "empty_line"])} :
           LET c == AddActivityData(util.context, r)
           IN  util' = [util EXCEPT
                   !.context = c,
                   !.activity_log = Append(@, r),
                   !.decision_view = ExtractForDecisionContext(c),
                   !.response_view = ExtractForResponseContext(c)]
    /\ UNCHANGED <<agentVars, gwVars, fleet>>

ApplyParseTargetDate ==
    /\ util.fn = "parse_target_date"
    /\ ~util.done
    /\ util' = [fn |-> util.fn, target_date |-> util.target_date,
                today |-> util.today, done |-> TRUE,
                out |-> ParseTargetDate(util.target_date, util.today)]
    /\ UNCHANGED <<agentVars, gwVars, fleet>>

ApplyWeatherApiTool ==
    /\ util.fn = "weather_api_tool"
    /\ ~util.done
    /\ util' = [fn |-> util.fn, arguments |-> util.arguments,
                env |-> util.env, done |-> TRUE,
                request |-> ForecastRequest(util.arguments, util.env),
                out |-> WeatherApiTool(util.arguments, util.env)]
    /\ UNCHANGED <<agentVars, gwVars, fleet>>

ApplyActivityApiTool ==
    /\ util.fn = "activity_api_tool"
    /\ ~util.done
    /\ util' = [fn |-> util.fn, arguments |-> util.arguments,
                env |-> util.env, done |-> TRUE,
                out |-> ActivityApiTool(util.arguments, util.env)]
    /\ UNCHANGED <<agentVars, gwVars, fleet>>

----------------------------------------------------------------------------
(* Specifications *)

Init == AgentInit /\ GwInit /\ FleetInit /\ util = NoUtilCall

Next ==
    \/ StartMcpServer /\ UNCHANGED <<gwVars, util, fleet>>
    \/ StartTurn /\ UNCHANGED <<gwVars, util, fleet>>
    \/ Analyze /\ UNCHANGED <<gwVars, util, fleet>>
    \/ Validate /\ UNCHANGED <<gwVars, util, fleet>>
    \/ Iteration /\ UNCHANGED <<gwVars, util, fleet>>
    \/ LoopExit /\ UNCHANGED <<gwVars, util, fleet>>
    \/ Respond /\ UNCHANGED <<gwVars, util, fleet>>

Spec == Init /\ [][Next]_vars

\* agent_loop runs to its end once entered: every call it makes returns.
FairSpec == Spec /\ WF_vars(TurnStep /\ UNCHANGED <<gwVars, util, fleet>>)

GwNext ==
    \/ GwStartServer /\ UNCHANGED <<agentVars, util, fleet>>
    \/ GwInitializeConnection /\ UNCHANGED <<agentVars, util, fleet>>
    \/ GwCallTool /\ UNCHANGED <<agentVars, util, fleet>>
    \/ GwShutdown /\ UNCHANGED <<agentVars, util, fleet>>

GatewaySpec == Init /\ [][GwNext]_vars

FleetNext ==
    \E i \in Instances :
        \/ FleetStart(i) /\ UNCHANGED <<agentVars, gwVars, util>>
        \/ FleetStartTurn(i) /\ UNCHANGED <<agentVars, gwVars, util>>
        \/ FleetCallTool(i) /\ UNCHANGED <<agentVars, gwVars, util>>
        \/ FleetShutdown(i) /\ UNCHANGED <<agentVars, gwVars, util>>

FleetSpec == Init /\ [][FleetNext]_vars

UtilsNext ==
    \/ ApplyExtractUniqueActivities
    \/ ApplyExtractForResponseGeneration
    \/ ApplyBuildWeatherParams
    \/ ApplyAddWeatherData
    \/ ApplyAddActivityData
    \/ ApplyParseTargetDate
    \/ ApplyWeatherApiTool
    \/ ApplyActivityApiTool

UtilsSpec == UtilsInit /\ [][UtilsNext]_vars

----------------------------------------------------------------------------
(* Claims *)

InTurn == pc # "IDLE"

\* A weather result of the documented shape: a failure, or a success that
\* carries its payload.
WeatherResultShape(r) ==
    /\ IsDict(r)
    /\ GetSuccess(r) =>
           /\ {"location", "current_weather", "forecast"} \subseteq DOMAIN r
           /\ \A i \in DOMAIN r.forecast : DayComplete(r.forecast[i])

\* C1: the loop bound is a hard cap.  In every turn the loop body runs at
\* most max_loops times and the decision engine is asked at most max_loops
\* times; at the bound the only step left is the one into synthesis.  A
\* turn whose decisions are all call_weather_api, with weather results of
\* the documented shape, never stops early: it reaches synthesis only after
\* exactly max_loops iterations, decisions and weather calls (5 for
\* max_loops = 5), and synthesis then runs once.
C1_LoopBoundIsHardCap ==
    InTurn =>
        /\ stats.iterations <= context.max_loops
        /\ stats.decisions <= context.max_loops
        /\ stats.tool_calls <= context.max_loops
        /\ (pc = "LOOPING" /\ stats.iterations = context.max_loops =>
                ~ENABLED Iteration /\ ENABLED LoopExit)
        /\ (/\ stats.only_weather
            /\ stats.iterations >= 1
            /\ WeatherResultShape(context.weather_data)
            =>
            /\ pc \in {"LOOPING", "RESPONDING", "DONE"}
            /\ (pc = "LOOPING" /\ stats.iterations < context.max_loops =>
                    ENABLED Iteration /\ ~ENABLED LoopExit)
            /\ (pc \in {"RESPONDING", "DONE"} =>
                    /\ stats.iterations = context.max_loops
                    /\ stats.decisions = context.max_loops
                    /\ stats.weather_calls = context.max_loops)
            /\ (pc = "DONE" <=> stats.synth = 1))

\* C1 witness: max_loops = 5, five weather decisions, then the response.
C1_Witness ==
    /\ pc = "DONE"
    /\ context.max_loops = DefaultMaxLoops
    /\ stats.only_weather
    /\ stats.iterations = DefaultMaxLoops
    /\ stats.decisions = DefaultMaxLoops
    /\ stats.weather_calls = DefaultMaxLoops
    /\ ret.type = "str"

\* C2: from the creation of the context to the end of the turn,
\* 0 <= loop_count <= max_loops.
C2_LoopCountInRange ==
    InTurn =>
        /\ 0 <= context.loop_count
        /\ context.loop_count <= context.max_loops

\* C2 witness: a turn that used its whole budget and answered.
C2_Witness ==
    /\ pc = "DONE"
    /\ context.max_loops = DefaultMaxLoops
    /\ context.loop_count = context.max_loops

\* The turn did nothing but extract the intent.
LoopNeverRan ==
    /\ context.loop_count = 0
    /\ context.tools_called = <<>>
    /\ stats.iterations = 0
    /\ stats.decisions = 0
    /\ stats.tool_calls = 0
    /\ stats.writes = 0
    /\ stats.synth = 0
    /\ last = NoLast

\* The extracted intent names no location: null, missing or empty.
NoLocation(qa) ==
    \/ "location" \notin DOMAIN qa
    \/ qa["location"] = None
    \/ qa["location"] = ""

\* C3: when extraction succeeds and yields no location, the turn ends at
\* once with the prompt-for-location message: no iteration, no decision,
\* no tool call, no synthesis.
C3_NoLocationEndsTurn ==
    (/\ "query_analysis" \in DOMAIN context
     /\ IsDict(context.query_analysis)
     /\ NoLocation(context.query_analysis)
     /\ pc # "INTENT_EXTRACTED")
    =>
    /\ pc = "ERROR"
    /\ ret = LocationPrompt
    /\ LoopNeverRan

\* C3 witness: an empty location was extracted and the prompt returned.
C3_Witness ==
    /\ pc = "ERROR"
    /\ "query_analysis" \in DOMAIN context
    /\ Get(context.query_analysis, "location", None) = ""
    /\ ret = LocationPrompt

\* C4: when intent extraction fails (the LLM call throws or prints no JSON),
\* the turn ends in ERROR with the error string; the loop is never entered,
\* no decision is requested and no tool is called.
C4_ExtractionFailureEndsTurn ==
    (InTurn /\ stats.extract_failed) =>
        /\ pc = "ERROR"
        /\ ret = AnalysisError("Failed to analyze query")
        /\ "query_analysis" \notin DOMAIN context
        /\ LoopNeverRan

\* C4 witness: a failed extraction that ended the turn.
C4_Witness ==
    /\ stats.extract_failed
    /\ pc = "ERROR"
    /\ ret.type = "str"

\* C5: no exception leaves agent_loop: every turn that is over returned a
\* string, whatever the extractor, the decision engine, the tools and the
\* response generation produced.
C5_TurnAlwaysReturnsString ==
    /\ pc # "RAISED"
    /\ pc \in {"DONE", "ERROR"} => ret.type = "str"

\* C6: every turn terminates in DONE or ERROR, given that every LLM call
\* and every tool call returns.
C6_TurnReachesDoneOrError ==
    (pc = "START") ~> (pc \in {"DONE", "ERROR"})

\* A tool call that came back as a failure: success false, or no success
\* field at all (the gateway's {error: cause}).
FailedCall(tool_name, result) ==
    /\ tool_name # "none"
    /\ IsDict(result)
    /\ ~ ("success" \in DOMAIN result /\ result["success"])

\* The context holds `result` as the latest result of `tool_name`.
Recorded(tool_name, result) ==
    IF tool_name = "weather_api"
    THEN /\ "weather_data" \in DOMAIN context
         /\ context.weather_data = result
    ELSE /\ "activity_data" \in DOMAIN context
         /\ context.activity_data = result
         /\ context.activity_data_list # <<>>
         /\ context.activity_data_list[Len(context.activity_data_list)] = result

\* The decision view shows the failure of `tool_name`.
ViewShowsFailure(view, tool_name, result) ==
    LET key == IF tool_name = "weather_api" THEN "weather" ELSE "activities"
        err == IF "error" \in DOMAIN result THEN result["error"] ELSE None
    IN  /\ view # NoView
        /\ key \in DOMAIN view.data_collected
        /\ view.data_collected[key] = [error |-> err]

\* C7: a failed tool call is neither fatal nor retried.  After an iteration
\* whose weather or activity call failed: the failure is the recorded
\* result, one tool request was issued in the iteration, the turn goes on
\* (back at the loop test with the next iteration enabled while
\* loop_count < max_loops, otherwise on to the response); and the iteration
\* that follows asks the decision engine with a view that shows the failure.
C7_FailedCallRecordedNotRetried ==
    /\ FailedCall(last.tool, last.result) =>
           /\ last.calls = 1
           /\ Recorded(last.tool, last.result)
           /\ stats.synth = 0 =>
                  /\ pc \in {"LOOPING", "RESPONDING"}
                  /\ context.loop_count < context.max_loops =>
                         pc = "LOOPING" /\ ENABLED Iteration
    /\ FailedCall(last.prev_tool, last.prev_result) =>
           /\ last.llm # "none"
           /\ ViewShowsFailure(last.view, last.prev_tool, last.prev_result)

\* C7 witness: a weather call failed with "timeout", and the next iteration
\* asked the engine, which chose the activity call.
C7_Witness ==
    /\ last.prev_tool = "weather_api"
    /\ last.prev_result = WFail
    /\ last.tool = "activity_api"
    /\ last.view.data_collected.weather = [error |-> "timeout"]
    /\ pc = "LOOPING"

\* C8: when the decision LLM call fails or prints no JSON, the decision is
\* respond_to_user with an error marker; the iteration makes no tool call
\* and the turn moves on to the response.
C8_DecisionFailureResponds ==
    (last.llm \in {"transport_error", "unparseable"}) =>
        /\ "action" \in DOMAIN last.decision
        /\ last.decision["action"] = "respond_to_user"
        /\ "error" \in DOMAIN last.decision
        /\ last.tool = "none"
        /\ last.calls = 0
        /\ last.writes = 0
        /\ pc \in {"RESPONDING", "DONE", "RAISED"}
        /\ pc # "RESPONDING" => stats.synth = 1

\* C8 witness: the engine failed in the third iteration and the turn ended
\* with a response.
C8_Witness ==
    /\ last.llm = "transport_error"
    /\ stats.decisions = 3
    /\ stats.tool_calls = 2
    /\ pc = "DONE"

\* C9: when the response generation fails, agent_loop returns a fixed
\* apologetic fallback string.
C9_SynthesisFailureFallsBack ==
    (stats.synth = 1 /\ GenerateRaises(context)) =>
        /\ pc = "DONE"
        /\ ret.type = "str"

\* C10: a tools/call line is written only to a subprocess whose handshake
\* succeeded; on a channel that is not ready call_tool writes nothing and
\* returns an error value.
C10_NoToolCallUnlessReady ==
    /\ \A i \in DOMAIN gw_wire :
           gw_wire[i].method = "tools/call" => gw_wire[i].ready
    /\ (gw_ret.op = "call_tool" /\ ~gw_ready) =>
           /\ gw_ret.wrote = 0
           /\ "error" \in DOMAIN gw_ret.value

\* C11: call_tool never raises: without a process (never started, or shut
\* down), on an empty response line, a response without result, a missing
\* or non-JSON text payload, or a pipe that throws, it returns a dict with
\* an error cause and no success flag.
C11_CallToolReturnsErrorValue ==
    gw_ret.op = "call_tool" =>
        /\ "raised" \notin DOMAIN gw_ret.value
        /\ gw_ret.kind # "result" =>
               /\ "nondict" \notin DOMAIN gw_ret.value
               /\ "error" \in DOMAIN gw_ret.value
               /\ "success" \notin DOMAIN gw_ret.value
               /\ gw_ret.value["error"] \in
                      {"MCP server not started", "Invalid MCP response",
                       "MCP tool call failed"}

\* C11 witness: the text payload was not JSON and an error value came back.
C11_Witness ==
    /\ gw_ret.op = "call_tool"
    /\ gw_ret.kind = "text_not_json"
    /\ gw_ret.value = [error |-> "MCP tool call failed"]

\* C11, second case: call_tool after shutdown of a gateway that had been used.
CallAfterShutdownRefused ==
    /\ gw_ret.op = "call_tool"
    /\ gw_ret.kind = "refused"
    /\ gw_wire # <<>>
    /\ gw_ret.value = [error |-> "MCP server not started"]

\* C12: shutdown is idempotent: it never fails, every subprocess is
\* terminated at most once, and after a shutdown no handle is held.
C12_ShutdownIdempotent ==
    /\ \A i \in DOMAIN gw_terminations : gw_terminations[i] <= 1
    /\ "raised" \notin DOMAIN gw_ret
    /\ gw_ret.op = "shutdown" =>
           /\ gw_process = None
           /\ ~gw_ready
           /\ gw_terminations # <<>> =>
                  gw_terminations[Len(gw_terminations)] = 1

\* C12 witness: a second shutdown after the one that terminated the
\* subprocess.
C12_Witness ==
    /\ gw_ret.op = "shutdown"
    /\ ~gw_ret.terminated
    /\ gw_terminations = <<1>>
    /\ gw_process = None

\* MCPClient's part of C13: the ids on the wire increase strictly, the
\* notification has no id and takes none.
GwRequestIdsIncrease ==
    /\ \A i, j \in DOMAIN gw_wire :
           (i < j /\ "id" \in DOMAIN gw_wire[i] /\ "id" \in DOMAIN gw_wire[j])
               => gw_wire[i]["id"] < gw_wire[j]["id"]
    /\ \A i \in DOMAIN gw_wire :
           /\ gw_wire[i].method = "notifications/initialized"
                  <=> "id" \notin DOMAIN gw_wire[i]
           /\ "id" \in DOMAIN gw_wire[i] => gw_wire[i]["id"] <= gw_request_id
    /\ (gw_ret.op \in {"start_server", "initialize_connection"} /\ gw_ret.ok) =>
           /\ Len(gw_wire) >= 2
           /\ gw_wire[Len(gw_wire)].method = "notifications/initialized"
           /\ gw_wire[Len(gw_wire) - 1]["id"] = gw_request_id

\* C13: the requests one gateway instance sends carry pairwise distinct,
\* strictly increasing ids; notifications carry none and consume none.
C13_RequestIdsIncrease ==
    /\ GwRequestIdsIncrease
    /\ \A i, j \in DOMAIN stats.request_ids :
           i < j => stats.request_ids[i] < stats.request_ids[j]

\* C14: the provider subprocess belongs to the instance and is there when a
\* turn needs it: every tool call of a turn is written to a started
\* subprocess, whether or not the caller started one before the turn.
C14_ProviderStartedOnFirstUse ==
    (InTurn /\ last.calls = 1) =>
        /\ mcp_server_process # None
        /\ last.writes = 1
        /\ "error" \in DOMAIN last.result =>
               last.result["error"] # "MCP server not started"

\* Occurrences of a tool name in tools_called.
TimesCalled(tool_name) ==
    Cardinality({i \in DOMAIN context.tools_called :
                     context.tools_called[i] = tool_name})

\* C15: after k >= 1 weather recordings the context holds one weather
\* result, the latest, and "weather_api" is in tools_called at most once.
C15_OneWeatherResultLatestWins ==
    (InTurn /\ stats.weather_calls >= 1) =>
        /\ "weather_data" \in DOMAIN context
        /\ context.weather_data = stats.weather_result
        /\ TimesCalled("weather_api") <= 1

\* C16: after N activity calls, interleaved with weather calls in any way,
\* the activity results are the N results in call order, failures
\* included, and "activity_api" is in tools_called N times.
C16_ActivityResultsAccumulate ==
    InTurn =>
        /\ (IF "activity_data_list" \in DOMAIN context
            THEN context.activity_data_list ELSE <<>>) = stats.activity_log
        /\ Len(stats.activity_log) = stats.activity_calls
        /\ TimesCalled("activity_api") = stats.activity_calls
        /\ stats.activity_calls >= 1 =>
               context.activity_data = stats.activity_log[stats.activity_calls]

\* C16 witness: a failed activity call, a weather call, a successful
\* activity call.
C16_Witness ==
    /\ stats.activity_log = <<AFail, AOk>>
    /\ context.activity_data_list = <<AFail, AOk>>
    /\ context.tools_called = <<"activity_api", "weather_api", "activity_api">>

\* A recorded result that is a failure.
FailedResult(r) == ~("success" \in DOMAIN r /\ r["success"])

\* C18: the errors of the final response name every tool that failed in
\* the turn: the weather error when the stored weather result is a failure,
\* an activity error when any recorded activity result is a failure, and
\* nothing for a tool without a failed result.
C18_ErrorsForEveryFailedTool ==
    pc = "DONE" =>
        LET notes == ret.parts.notes
            errors == ExtractErrorsFromContext(context)
            weatherFailed == /\ "weather_data" \in DOMAIN context
                             /\ FailedResult(context.weather_data)
            activityFailed == \E i \in DOMAIN stats.activity_log :
                                  FailedResult(stats.activity_log[i])
        IN  /\ weatherFailed <=>
                   \E n \in DOMAIN notes :
                       /\ notes[n].tool = "Weather"
                       /\ notes[n].error = context.weather_data["error"]
            /\ activityFailed <=>
                   \E n \in DOMAIN notes : notes[n].tool = "Activities"
            /\ weatherFailed <=>
                   \E n \in DOMAIN errors :
                       errors[n].text = "Weather data unavailable"
            /\ activityFailed <=>
                   \E n \in DOMAIN errors :
                       errors[n].text = "Activity data unavailable"

\* Positions <<call, index>> of the activities of the successful results.
Occurrences(l) ==
    UNION { { <<k, m>> : m \in DOMAIN l[k]["activities"] } :
              k \in { n \in DOMAIN l :
                         "success" \in DOMAIN l[n] /\ l[n]["success"] } }

Before(p, q) == p[1] < q[1] \/ (p[1] = q[1] /\ p[2] < q[2])

ActivityAt(l, p) == l[p[1]]["activities"][p[2]]

FirstOccurrence(l, name) ==
    CHOOSE p \in Occurrences(l) :
        /\ ActivityAt(l, p)["name"] = name
        /\ \A q \in Occurrences(l) :
               ActivityAt(l, q)["name"] = name => ~Before(q, p)

NamesIn(l) == { ActivityAt(l, p)["name"] : p \in Occurrences(l) }

\* `shown` is the first-seen, duplicate-free list of l cut to 8 entries.
MergedUniqueFirstEight(l, shown) ==
    /\ Len(shown) = IF Cardinality(NamesIn(l)) < 8
                    THEN Cardinality(NamesIn(l)) ELSE 8
    /\ \A i \in DOMAIN shown :
           /\ shown[i]["name"] \in NamesIn(l)
           /\ LET first == ActivityAt(l, FirstOccurrence(l, shown[i]["name"]))
              IN  /\ shown[i]["category"] = first["category"]
                  /\ shown[i]["description"] = first["description"]
           /\ \A n \in NamesIn(l) :
                  Before(FirstOccurrence(l, n),
                         FirstOccurrence(l, shown[i]["name"]))
                      => \E j \in DOMAIN shown : shown[j]["name"] = n
    /\ \A i, j \in DOMAIN shown :
           i < j =>
               /\ shown[i]["name"] # shown[j]["name"]
               /\ Before(FirstOccurrence(l, shown[i]["name"]),
                         FirstOccurrence(l, shown[j]["name"]))

\* C17: the activities shown are those of the successful results in call
\* order, without a second entry of a name (exact, case-sensitive), first
\* occurrence kept, first-seen order, at most 8; [A,B] then [B,C] gives
\* [A,B,C].  Both for generate_final_response and for
\* extract_unique_activities_for_response.
C17_UniqueActivitiesFirstSeen ==
    (util.fn = "extract_unique_activities_for_response" /\ util.done) =>
        /\ MergedUniqueFirstEight(util.activity_data_list, util.agent_out)
        /\ MergedUniqueFirstEight(util.activity_data_list, util.out)
        /\ util.activity_data_list = <<AOk, ABC>> =>
               /\ [i \in DOMAIN util.agent_out |-> util.agent_out[i]["name"]]
                      = <<"A", "B", "C">>
               /\ [i \in DOMAIN util.out |-> util.out[i]["name"]]
                      = <<"A", "B", "C">>

\* C17 witness: the lists [A,B] and [B,C] merged to three entries.
C17_Witness ==
    /\ util.fn = "extract_unique_activities_for_response"
    /\ util.done
    /\ util.activity_data_list = <<AOk, ABC>>
    /\ Len(util.agent_out) = 3
    /\ util.agent_out[2] = ActB

\* C17, second case: more than 8 distinct names are cut to 8, and "a" and
\* "A" are two names.
TruncatedToEight ==
    /\ util.fn = "extract_unique_activities_for_response"
    /\ util.done
    /\ util.activity_data_list = <<ACase, AMany>>
    /\ Len(util.out) = 8
    /\ util.out[1]["name"] = "a"
    /\ util.out[2]["name"] = "A"

\* C19: for a successful weather result with a non-empty forecast the
\* response view is built without failing, also when the result has no
\* resolved target date; with a resolved date it reports the forecast day
\* of that date and date_found = TRUE, or, when no day has that date, the
\* first day and date_found = FALSE.
C19_TargetDayReported ==
    (/\ util.fn = "extract_for_response_generation"
     /\ util.done
     /\ "success" \in DOMAIN util.weather_data
     /\ util.weather_data["success"]
     /\ util.weather_data["forecast"] # <<>>)
    =>
    LET w == util.weather_data
        forecast == w["forecast"]
        resolved == IF /\ "target_date" \in DOMAIN w
                       /\ "resolved" \in DOMAIN w["target_date"]
                    THEN w["target_date"]["resolved"]
                    ELSE None
    IN  /\ "raised" \notin DOMAIN util.out
        /\ "condition" \in DOMAIN util.out
        /\ resolved # None =>
               IF \E i \in DOMAIN forecast : forecast[i]["date"] = resolved
               THEN /\ util.out["date_found"] = TRUE
                    /\ \E i \in DOMAIN forecast :
                           /\ forecast[i]["date"] = resolved
                           /\ util.out["condition"] =
                                  forecast[i]["day_summary"]["condition"]
               ELSE /\ util.out["date_found"] = FALSE
                    /\ util.out["condition"] =
                           forecast[1]["day_summary"]["condition"]

\* The part of C19 that the code keeps: the same statement for results
\* whose target_date is an object or absent (not null).
TargetDayReportedUnlessNull ==
    (/\ util.fn = "extract_for_response_generation"
     /\ "target_date" \in DOMAIN util.weather_data
     /\ "null" \in DOMAIN util.weather_data["target_date"])
    \/ C19_TargetDayReported

\* C20: the target_date of a weather call is the engine's when its params
\* have one, else the intent's time context when the intent has one (not
\* null), else "tomorrow"; the engine's other params are passed unchanged.
C20_TargetDateDefaults ==
    (util.fn = "build_weather_params" /\ util.done) =>
        LET d == util.decision
            qa == util.query_analysis
            params == IF "params" \in DOMAIN d THEN d["params"]
                      ELSE [k \in {} |-> None]
            expected ==
                IF "target_date" \in DOMAIN params THEN params["target_date"]
                ELSE IF "time_context" \in DOMAIN qa
                            /\ qa["time_context"] # None
                     THEN qa["time_context"]
                     ELSE "tomorrow"
            Right(out) ==
                /\ DOMAIN out = DOMAIN params \cup {"target_date"}
                /\ out["target_date"] = expected
                /\ \A k \in DOMAIN params \ {"target_date"} :
                       out[k] = params[k]
        IN  Right(util.agent_out) /\ Right(util.out)

\* The part of C20 that the code keeps: everything but a null time context.
TargetDateDefaultsUnlessNull ==
    (/\ util.fn = "build_weather_params"
     /\ "time_context" \in DOMAIN util.query_analysis
     /\ util.query_analysis["time_context"] = None)
    \/ C20_TargetDateDefaults

\* The statements of C15 and C16 for add_weather_data / add_activity_data.
BuilderRecordsAsClaimed ==
    util.fn = "context_builder" =>
        LET c == util.context
            Times(t) == Cardinality({i \in DOMAIN c.tools_called :
                                        c.tools_called[i] = t})
        IN  /\ util.weather_calls >= 1 =>
                   /\ c.weather_data = util.weather_result
                   /\ Times("weather_api") = 1
            /\ (IF "activity_data_list" \in DOMAIN c
                THEN c.activity_data_list ELSE <<>>) = util.activity_log
            /\ Times("activity_api") = Len(util.activity_log)

\* A tool of the provider has answered with a result.
ToolAnswered ==
    /\ util.fn \in {"weather_api_tool", "activity_api_tool"}
    /\ util.done
    /\ "raised" \notin DOMAIN util.out

\* success=true with a payload and no error, or success=false with an error
OneOfTwoShapes(r) ==
    /\ "success" \in DOMAIN r
    /\ r["success"] \in BOOLEAN
    /\ r["success"] => "error" \notin DOMAIN r /\ DOMAIN r # {"success"}
    /\ ~r["success"] => "error" \in DOMAIN r

\* C21: every result the weather tool or the activity tool produces is
\* either success=true with a payload and no error, or success=false with an
\* error string; none carries both and none lacks the success field, the
\* missing-location and missing-API-key results included.
C21_ToolResultTwoShapes == ToolAnswered => OneOfTwoShapes(util.out)

\* What does hold: the two shapes whenever a location was given.
ToolResultTwoShapesWithLocation ==
    /\ ToolAnswered
    /\ "location" \in DOMAIN util.arguments
    /\ util.arguments["location"] # ""
    => OneOfTwoShapes(util.out)

\* parse_target_date has answered for the given texts.
Parsed(texts) ==
    /\ util.fn = "parse_target_date"
    /\ util.done
    /\ util.target_date \in texts

\* The first day at or after `from` (at most a week on) with that weekday.
RECURSIVE FirstOnOrAfter(_, _, _)
FirstOnOrAfter(from, weekday, fuel) ==
    IF Weekday(from) = weekday \/ fuel = 0 THEN from
    ELSE FirstOnOrAfter(NextDay(from), weekday, fuel - 1)

Saturday == 5
Monday == Weekday(Date(2025, 2, 24))

WeekendTexts ==
    {PyStr(Keyword.this_weekend), PyStr(Text.this_weekend_title), PyStr(Keyword.weekend),
     PyStr(Text.weekend_upper)}

\* C22: for "this weekend" or "weekend" in any letter case, and whatever
\* weekday today is, the resolved date is a Saturday: today when today is a
\* Saturday, otherwise the first Saturday strictly after today, one to six
\* days ahead.
C22_WeekendIsSaturday ==
    Parsed(WeekendTexts) =>
        /\ Weekday(util.out.date) = Saturday
        /\ util.out.date = FirstOnOrAfter(util.today, Saturday, 7)
        /\ ToOrdinal(util.out.date) - ToOrdinal(util.today) \in 0 .. 6
        /\ (Weekday(util.today) = Saturday <=> util.out.date = util.today)

\* The weekend asked for on a Sunday: the Saturday six days on.
C22_Witness ==
    /\ Parsed(WeekendTexts)
    /\ Weekday(util.today) = 6
    /\ ToOrdinal(util.out.date) - ToOrdinal(util.today) = 6

NextWeekTexts ==
    {PyStr(Keyword.next_week), PyStr(Text.next_week_title), PyStr(Keyword.next_monday),
     PyStr(Text.next_monday_upper)}

\* C23: for "next week" or "next monday", and whatever weekday today is, the
\* resolved date is the first Monday strictly after today: one to six days
\* ahead when today is not a Monday, exactly seven when it is, never today.
C23_NextWeekIsNextMonday ==
    Parsed(NextWeekTexts) =>
        /\ Weekday(util.out.date) = Monday
        /\ util.out.date = FirstOnOrAfter(NextDay(util.today), Monday, 7)
        /\ util.out.date # util.today
        /\ IF Weekday(util.today) = Monday
           THEN ToOrdinal(util.out.date) - ToOrdinal(util.today) = 7
           ELSE ToOrdinal(util.out.date) - ToOrdinal(util.today) \in 1 .. 6

\* Next week asked for on a Monday: the Monday seven days on.
C23_Witness ==
    /\ Parsed(NextWeekTexts)
    /\ Weekday(util.today) = Monday
    /\ ToOrdinal(util.out.date) - ToOrdinal(util.today) = 7

\* Texts that are no keyword, with the date each one writes, if any.
LiteralDates ==
    {<<PyStr(Text.first_of_march), Date(2025, 3, 1)>>,
     <<PyStr(Text.leap_day), Date(2024, 2, 29)>>}
MalformedTexts ==
    {PyStr(Text.next_friday), PyStr(Text.no_leap_day), PyStr(Text.month_thirteen),
     PyStr(Text.year_zero), PyStr(Text.slash_date), PyStr(Text.trailing_space)}
TomorrowTexts ==
    {PyNone, PyStr(<<>>), PyStr(Keyword.tomorrow), PyStr(Text.tomorrow_capital)}
FallbackMarker ==
    PyStr(<<"t", "o", "m", "o", "r", "r", "o", "w", " ",
            "(", "d", "e", "f", "a", "u", "l", "t", ")">>)

\* C24: for a text that is no keyword, a valid YYYY-MM-DD date resolves to
\* that very date and its description is not the fallback one; a malformed
\* text resolves to the day after today with the fallback description, which
\* an explicit "tomorrow", a null and an empty text never get; and every
\* call answers with a date and a description.
C24_LiteralOrMarkedFallback ==
    /\ \A l \in LiteralDates :
           Parsed({l[1]}) =>
               /\ util.out.date = l[2]
               /\ util.out.description # FallbackMarker
    /\ Parsed(MalformedTexts) =>
           /\ util.out.date = NextDay(util.today)
           /\ util.out.description = FallbackMarker
    /\ Parsed(TomorrowTexts) =>
           /\ util.out.date = NextDay(util.today)
           /\ util.out.description # FallbackMarker
    /\ Parsed(TargetDateTexts) =>
           /\ DOMAIN util.out = {"date", "description"}
           /\ DOMAIN util.out.date = {"year", "month", "day"}

\* February 29 of a year that has none: tomorrow, marked as the fallback.
C24_Witness ==
    /\ Parsed({PyStr(Text.no_leap_day)})
    /\ util.out.date = NextDay(util.today)
    /\ util.out.description = FallbackMarker

\* The weather tool succeeded: a success with its payload and a forecast day
\* for the resolved target date.
WeatherSucceeded(r) ==
    /\ IsDict(r)
    /\ GetSuccess(r)
    /\ WeatherResultShape(r)
    /\ "target_date" \in DOMAIN r
    /\ "resolved" \in DOMAIN r["target_date"]
    /\ \E i \in DOMAIN r["forecast"] :
           r["forecast"][i]["date"] = r["target_date"]["resolved"]

\* The activity tool succeeded: a success with its payload.
ActivitySucceeded(r) ==
    /\ IsDict(r)
    /\ GetSuccess(r)
    /\ {"activities", "total_results"} \subseteq DOMAIN r

ThreeStepPlan == <<"call_weather_api", "call_activity_api", "respond_to_user">>

\* The decisions were weather, activity, respond and both calls succeeded.
ThreeStepTurn ==
    /\ InTurn
    /\ stats.actions = ThreeStepPlan
    /\ WeatherSucceeded(stats.weather_result)
    /\ Len(stats.activity_log) = 1
    /\ ActivitySucceeded(stats.activity_log[1])

C26_TurnStateOrder ==
    InTurn =>
        /\ pc \in {"START", "INTENT_EXTRACTED", "LOOPING", "RESPONDING",
                   "DONE", "ERROR"}
        /\ (pc = "START" => stats.extract = 0)
        /\ (pc \in {"START", "INTENT_EXTRACTED", "ERROR"} =>
               /\ stats.iterations = 0
               /\ stats.decisions = 0
               /\ stats.tool_calls = 0
               /\ stats.synth = 0)
        /\ (stats.iterations >= 1 => pc \in {"LOOPING", "RESPONDING", "DONE"})
        /\ (pc \in {"LOOPING", "RESPONDING"} => stats.synth = 0)
        /\ (pc = "DONE" => stats.synth = 1)
        /\ (stats.synth >= 1 => ~ENABLED Iteration)

\* What does hold: the same order, with the turns that end by an exception
\* set apart; those never reach ERROR and run the synthesizer at most once.
TurnStateOrderUnlessRaised ==
    InTurn =>
        /\ (pc \in {"START", "INTENT_EXTRACTED", "ERROR"} =>
               /\ stats.iterations = 0
               /\ stats.decisions = 0
               /\ stats.tool_calls = 0
               /\ stats.synth = 0)
        /\ (stats.iterations >= 1 =>
               pc \in {"LOOPING", "RESPONDING", "DONE", "RAISED"})
        /\ (pc \in {"LOOPING", "RESPONDING"} => stats.synth = 0)
        /\ (pc = "DONE" => stats.synth = 1)
        /\ stats.synth <= 1
        /\ (stats.synth >= 1 => ~ENABLED Iteration)

\* Every step of a turn moves along the order, or out of it by an exception.
TurnStepsInOrder ==
    [][pc' # pc =>
          \/ pc' = "START" /\ pc \in {"IDLE", "DONE", "ERROR", "RAISED"}
          \/ <<pc, pc'>> \in
                 {<<"START", "INTENT_EXTRACTED">>, <<"START", "ERROR">>,
                  <<"INTENT_EXTRACTED", "LOOPING">>,
                  <<"INTENT_EXTRACTED", "ERROR">>,
                  <<"LOOPING", "RESPONDING">>, <<"RESPONDING", "DONE">>}
          \/ pc' = "RAISED" /\ pc \in {"INTENT_EXTRACTED", "LOOPING",
                                        "RESPONDING"}]_vars

KnownActions == {"call_weather_api", "call_activity_api", "respond_to_user"}

\* The latest iteration got a decision whose action is none of the three.
UnknownAction ==
    /\ last.llm # "none"
    /\ IsDict(last.decision)
    /\ "action" \in DOMAIN last.decision
    /\ last.decision["action"] \notin KnownActions

\* An activity result as the activity tool produces it.
ActivityResultShape(r) ==
    /\ IsDict(r)
    /\ GetSuccess(r) =>
           /\ {"activities", "total_results"} \subseteq DOMAIN r
           /\ \A i \in DOMAIN r["activities"] :
                  {"name", "category", "description"}
                      \subseteq DOMAIN r["activities"][i]

\* Every result recorded in the turn is one the tools produce.
ResultsAsProduced ==
    /\ "weather_data" \in DOMAIN context =>
           WeatherResultShape(context.weather_data)
    /\ "activity_data_list" \in DOMAIN context =>
           \A i \in DOMAIN context.activity_data_list :
               ActivityResultShape(context.activity_data_list[i])

\* C27: a decision whose action is none of call_weather_api,
\* call_activity_api, respond_to_user is handled like respond_to_user: the
\* loop exits in that iteration, no tool call is made, and the turn goes on
\* to synthesis and returns a response string.
C27_UnknownActionResponds ==
    UnknownAction =>
        /\ last.calls = 0
        /\ last.writes = 0
        /\ last.tool = "none"
        /\ pc # "LOOPING"
        /\ stats.actions # <<>>
        /\ stats.actions[Len(stats.actions)] = last.decision["action"]
        /\ Len(stats.actions) = stats.iterations
        /\ (pc = "RESPONDING" => ENABLED Respond /\ stats.synth = 0)
        /\ (pc # "RESPONDING" => stats.synth = 1)
        /\ (ResultsAsProduced =>
               /\ pc \in {"RESPONDING", "DONE"}
               /\ pc = "DONE" => ret.type = "str" /\ ret.text = "response")

\* C27 witness: after a weather call the engine chose "dance"; the turn
\* answered.
C27_Witness ==
    /\ UnknownAction
    /\ last.decision["action"] = "dance"
    /\ stats.weather_calls = 1
    /\ pc = "DONE"
    /\ ret.type = "str"

\* C28: one action per iteration.  Every iteration asks the decision engine
\* exactly once and issues at most one tool request, never a weather and an
\* activity call together; so at every point of a turn
\* tool calls <= decisions = loop_count <= max_loops.
C28_OneActionPerIteration ==
    InTurn =>
        /\ stats.decide_calls = stats.iterations
        /\ stats.decide_calls = context.loop_count
        /\ stats.decisions <= stats.decide_calls
        /\ last.calls \in {0, 1}
        /\ last.writes <= last.calls
        /\ (last.calls = 1 <=> last.tool \in {"weather_api", "activity_api"})
        /\ stats.tool_calls = stats.weather_calls + stats.activity_calls
        /\ Len(context.tools_called) = stats.tool_calls
        /\ stats.tool_calls <= stats.decide_calls
        /\ context.loop_count <= context.max_loops

\* C28 witness: three iterations, the first two with a weather call each,
\* the third with none.
C28_Witness ==
    /\ pc = "RESPONDING"
    /\ stats.decide_calls = 3
    /\ context.loop_count = 3
    /\ stats.weather_calls = 2
    /\ stats.tool_calls = 2
    /\ last.calls = 0

\* The latest iteration got a decision with a known action and no params.
NoParams ==
    /\ last.llm # "none"
    /\ IsDict(last.decision)
    /\ "action" \in DOMAIN last.decision
    /\ last.decision["action"] \in KnownActions
    /\ "params" \notin DOMAIN last.decision

\* The latest iteration called `tool_name` and recorded the result.
CalledAndRecorded(tool_name) ==
    /\ last.calls = 1
    /\ last.tool = tool_name
    /\ Recorded(tool_name, last.result)

\* C29: params is optional on every action.  A call_weather_api or
\* call_activity_api decision without params is still executed as a tool
\* call, with an empty argument mapping (plus the derived target_date for
\* weather), and its result is recorded; respond_to_user without params
\* leaves the loop; none of them aborts the turn.
C29_ParamsOptional ==
    NoParams =>
        /\ ~(pc = "RAISED" /\ last.calls = 0 /\ stats.synth = 0)
        /\ (last.decision["action"] = "call_weather_api" =>
               /\ CalledAndRecorded("weather_api")
               /\ last.args =
                      [target_date |->
                          Get(context.query_analysis, "time_context",
                              "tomorrow")])
        /\ (last.decision["action"] = "call_activity_api" =>
               /\ CalledAndRecorded("activity_api")
               /\ last.args = EmptyDict)
        /\ (last.decision["action"] = "respond_to_user" =>
               /\ last.calls = 0
               /\ pc # "LOOPING")

\* What does hold: the same for call_weather_api and respond_to_user.
ParamsOptionalExceptActivity ==
    NoParams /\ last.decision["action"] # "call_activity_api" =>
        /\ ~(pc = "RAISED" /\ last.calls = 0 /\ stats.synth = 0)
        /\ (last.decision["action"] = "call_weather_api" =>
               /\ CalledAndRecorded("weather_api")
               /\ last.args =
                      [target_date |->
                          Get(context.query_analysis, "time_context",
                              "tomorrow")])
        /\ (last.decision["action"] = "respond_to_user" =>
               /\ last.calls = 0
               /\ pc # "LOOPING")

\* The latest gateway operation ran the handshake.
HandshakeRan ==
    /\ gw_ret.op \in {"start_server", "initialize_connection"}
    /\ "hs" \in DOMAIN gw_ret

\* C30: in the handshake the gateway sends the initialize request first and
\* reads exactly one response line; it sends notifications/initialized if
\* and only if that response has a result; it reports success exactly then,
\* and failure, with no notification sent, for any other response, an empty
\* line or an exception.
C30_Handshake ==
    HandshakeRan =>
        LET w == gw_ret.wrote
            notified ==
                \E i \in DOMAIN w : w[i].method = "notifications/initialized"
        IN  /\ Len(w) <= 2
            /\ (w # <<>> =>
                   /\ w[1].method = "initialize"
                   /\ "id" \in DOMAIN w[1])
            /\ gw_ret.reads = (IF w # <<>> THEN 1 ELSE 0)
            /\ (gw_ret.hs = "write_exception" <=> w = <<>>)
            /\ (notified <=> gw_ret.hs = "result")
            /\ (notified <=>
                   /\ Len(w) = 2
                   /\ w[2].method = "notifications/initialized"
                   /\ "id" \notin DOMAIN w[2])
            /\ (gw_ret.ok <=> gw_ret.hs = "result")
            /\ (~gw_ret.ok => ~notified)
            /\ gw_ready = gw_ret.ok

\* C30 witness: the provider answered initialize with an error response; the
\* handshake reported failure after one request and one read.
C30_Witness ==
    /\ HandshakeRan
    /\ gw_ret.hs = "error_response"
    /\ ~gw_ret.ok
    /\ Len(gw_ret.wrote) = 1
    /\ gw_ret.reads = 1

\* C31: the query text and the extracted intent stay as intent extraction
\* left them for the rest of the turn: no iteration, no derivation of the
\* weather parameters, no recording of a result and no view changes
\* context.query or a field of the intent.
C31_QueryAndIntentImmutable ==
    InTurn =>
        /\ context.query = stats.query
        /\ ("query_analysis" \in DOMAIN context =>
               context.query_analysis = stats.intent)
        /\ (pc \in {"LOOPING", "RESPONDING", "DONE"} =>
               "query_analysis" \in DOMAIN context)
        /\ (last.view # NoView =>
               /\ last.view.original_query = stats.query
               /\ last.view.extracted_info = stats.intent)

\* C31 witness: a turn that derived the weather parameters, recorded a
\* weather and an activity result and answered.
C31_Witness ==
    /\ pc = "DONE"
    /\ stats.weather_calls >= 1
    /\ stats.activity_calls >= 1
    /\ context.query_analysis = stats.intent

\* What the other instance sees: its attributes and its subprocess.
SeenBy(f, j) ==
    [agent |-> f.agent[j],
     alive |-> f.agent[j].process \in f.alive]

\* C32: agent instances share no subprocess and no context.  With two
\* instances running in any interleaving, two instances never hold the same
\* subprocess, and a start, a turn, a tool call with its recorded result or
\* a shutdown on one instance leaves the handle, the request-id counter, the
\* context and the subprocess of the other as they were.
C32_InstancesShareNothing ==
    /\ [](\A i, j \in Instances :
             (i # j /\ fleet.agent[i].process # 0) =>
                 fleet.agent[i].process # fleet.agent[j].process)
    /\ [][\A j \in Instances :
             j # fleet'.actor => SeenBy(fleet', j) = SeenBy(fleet, j)]_vars

\* C32 witness: both instances hold a live subprocess of their own and each
\* has recorded a tool call in its own turn.
C32_Witness ==
    /\ \A i \in Instances :
           /\ fleet.agent[i].process \in fleet.alive
           /\ fleet.agent[i].context # EmptyDict
           /\ fleet.agent[i].context.tools_called # <<>>
    /\ fleet.agent[1].context.tools_called # fleet.agent[2].context.tools_called

WeatherToolRequested ==
    /\ util.fn = "weather_api_tool"
    /\ util.done
    /\ util.request.sent

\* C33: the number of forecast days the weather tool requests from the
\* provider is always within 1..10: a caller value above 10 is reduced to
\* 10, a value below 1 is not passed through, and an omitted value is 7.
C33_ForecastDaysInRange ==
    WeatherToolRequested =>
        /\ util.request.days \in 1 .. 10
        /\ ("forecast_days" \notin DOMAIN util.arguments =>
               util.request.days = 7)
        /\ (Has(util.arguments, "forecast_days") =>
               /\ (util.arguments.forecast_days > 10 =>
                      util.request.days = 10)
               /\ (util.arguments.forecast_days \in 1 .. 10 =>
                      util.request.days = util.arguments.forecast_days))

\* What the code does guarantee: never more than 10 days, 7 when omitted,
\* and the caller's value when it is at most 10.
ForecastDaysAtMostTen ==
    WeatherToolRequested =>
        /\ util.request.days <= 10
        /\ ("forecast_days" \notin DOMAIN util.arguments =>
               util.request.days = 7)
        /\ (("forecast_days" \in DOMAIN util.arguments
               /\ util.arguments.forecast_days <= 10) =>
               util.request.days = util.arguments.forecast_days)

ActivityToolAnswered ==
    /\ util.fn = "activity_api_tool"
    /\ util.done
    /\ "query_parameters" \in DOMAIN util.out

\* The condition texts given to the tool, by the keywords they contain.
BadWeatherTexts == {Text.light_rain, Text.sunny_showers}
OnlyGoodWeatherTexts == {Text.sunny}
NoKeywordTexts == {<<>>, Text.cloudy}

RequestedType == Get(util.arguments, "activity_type", "both")
ConditionText == Get(util.arguments, "weather_condition", PyStr(<<>>)).str

\* C34: the activity tool narrows the type only for a request of "both".
\* A requested indoor or outdoor is the resolved type whatever the weather;
\* "both" resolves to indoor when the condition has a bad-weather keyword
\* (also when it has a good-weather keyword too), to outdoor when it has
\* only a good-weather keyword, and stays "both" otherwise; the result
\* echoes the requested and the resolved type.
C34_NarrowsOnlyBoth ==
    ActivityToolAnswered =>
        LET q == util.out.query_parameters
        IN  /\ q.requested_activity_type = RequestedType
            /\ (RequestedType \in {"indoor", "outdoor"} =>
                   q.resolved_activity_type = RequestedType)
            /\ (RequestedType = "both" =>
                   /\ (ConditionText \in BadWeatherTexts =>
                          q.resolved_activity_type = "indoor")
                   /\ (ConditionText \in OnlyGoodWeatherTexts =>
                          q.resolved_activity_type = "outdoor")
                   /\ (ConditionText \in NoKeywordTexts =>
                          q.resolved_activity_type = "both"))
            /\ ConditionText \in
                   BadWeatherTexts \cup OnlyGoodWeatherTexts \cup NoKeywordTexts
            /\ util.out.activities =
                   Prefix(IF q.resolved_activity_type = "indoor"
                              THEN util.env.indoor
                          ELSE IF q.resolved_activity_type = "outdoor"
                              THEN util.env.outdoor
                          ELSE Prefix(util.env.indoor, 4)
                                   \o Prefix(util.env.outdoor, 4), 8)

\* C34 witness: "both" was requested with a condition that has a good and a
\* bad keyword, and the indoor search was the one used.
C34_Witness ==
    /\ ActivityToolAnswered
    /\ RequestedType = "both"
    /\ ConditionText = Text.sunny_showers
    /\ util.out.query_parameters.resolved_activity_type = "indoor"
    /\ util.env.indoor # util.env.outdoor
    /\ util.out.activities = util.env.indoor

\* C35: once an activity result has been recorded, context["activity_data"]
\* is the last element of context["activity_data_list"]; before the first
\* activity call of the turn the context has neither key.  Weather
\* recordings in between change nothing of this.
C35_LatestIsLastOfList ==
    InTurn =>
        /\ (stats.activity_calls = 0 =>
               /\ "activity_data" \notin DOMAIN context
               /\ "activity_data_list" \notin DOMAIN context)
        /\ (stats.activity_calls >= 1 =>
               /\ "activity_data" \in DOMAIN context
               /\ "activity_data_list" \in DOMAIN context
               /\ context.activity_data_list # <<>>
               /\ context.activity_data =
                      context.activity_data_list[Len(context.activity_data_list)])

\* C35 witness: an activity result, a weather result, then a different
\* activity result.
C35_Witness ==
    /\ InTurn
    /\ context.tools_called = <<"activity_api", "weather_api", "activity_api">>
    /\ context.activity_data_list = <<AOk, AFail>>
    /\ context.activity_data = AFail

\* The key k is in both contexts with the same value, or in neither.
SameField(c, c2, k) ==
    /\ (k \in DOMAIN c) = (k \in DOMAIN c2)
    /\ (k \in DOMAIN c => c[k] = c2[k])

\* The action the iteration just made acted on, None when the decision had
\* none.
ActedOn(d) == IF IsDict(d) /\ "action" \in DOMAIN d THEN d.action ELSE None

\* C36: an iteration whose decision is respond_to_user or an unrecognized
\* action changes nothing in the context except loop_count, and sends no
\* request; a weather iteration leaves the activity results as they were
\* and an activity iteration leaves the weather result as it was.
C36_IterationFrame ==
    [][(pc = "LOOPING" /\ stats'.decisions = stats.decisions + 1) =>
          LET action == ActedOn(last'.decision)
          IN  /\ (action \notin {None, "call_weather_api", "call_activity_api"} =>
                     /\ DOMAIN context' = DOMAIN context
                     /\ \A k \in DOMAIN context \ {"loop_count"} :
                            context'[k] = context[k]
                     /\ context'.loop_count = context.loop_count + 1
                     /\ stats'.writes = stats.writes
                     /\ stats'.tool_calls = stats.tool_calls
                     /\ last'.calls = 0)
              /\ (action = "call_weather_api" =>
                     /\ SameField(context, context', "activity_data_list")
                     /\ SameField(context, context', "activity_data"))
              /\ (action = "call_activity_api" =>
                     SameField(context, context', "weather_data"))]_vars

\* C36 witness: after a weather and an activity result were recorded, an
\* iteration with an unrecognized action has run.
C36_Witness ==
    /\ pc = "RESPONDING"
    /\ stats.weather_calls >= 1
    /\ stats.activity_calls >= 1
    /\ last.calls = 0
    /\ ActedOn(last.decision) \notin
           {None, "call_weather_api", "call_activity_api", "respond_to_user"}
    /\ context.loop_count = stats.iterations
    /\ Len(context.tools_called) = 2

\* C37: each turn starts from a fresh context.  When a turn starts, however
\* the turn before ended, loop_count is 0, tools_called is empty and there
\* is no weather or activity result; until the turn itself calls a tool,
\* the context holds no result, and the first decision of the turn is
\* given a view with no tool used and no data collected.
C37_FreshContextEachTurn ==
    /\ (pc = "START" =>
           /\ DOMAIN context = {"query", "tools_called", "loop_count", "max_loops"}
           /\ context.loop_count = 0
           /\ context.tools_called = <<>>)
    /\ ((InTurn /\ stats.tool_calls = 0) =>
           /\ context.tools_called = <<>>
           /\ DOMAIN context \cap
                  {"weather_data", "activity_data", "activity_data_list"} = {})
    /\ ((InTurn /\ stats.decisions = 1 /\ last.view # NoView) =>
           /\ last.view.tools_used = <<>>
           /\ last.view.data_collected = EmptyDict)
    /\ (InTurn => context.loop_count = stats.iterations)

\* C37 witness: the turn before recorded a tool result, and this turn has
\* reached its answer without calling a tool.
C37_Witness ==
    /\ stats.earlier
    /\ pc = "DONE"
    /\ stats.decisions = 1
    /\ stats.tool_calls = 0
    /\ last.view.data_collected = EmptyDict
    /\ "weather_data" \notin DOMAIN context

\* Subprocesses the instance launched and never called terminate() on.
NotTerminated == {i \in DOMAIN gw_terminations : gw_terminations[i] = 0}

\* C38: a gateway instance never leaks a subprocess.  Over any sequence of
\* start, failed handshake, tool call and shutdown, start on an instance
\* that already holds a subprocess included, at most one subprocess the
\* instance launched is alive, and none is once shutdown has returned.
C38_NoSubprocessLeak ==
    /\ Cardinality(NotTerminated) <= 1
    /\ (gw_ret.op = "shutdown" => NotTerminated = {})

\* What does hold: the only subprocess shutdown can reach is the latest one
\* launched, and every earlier one still running was replaced by a start.
OnlyLatestIsHeld ==
    /\ (gw_process # None =>
           /\ gw_terminations # <<>>
           /\ gw_terminations[Len(gw_terminations)] = 0)
    /\ (gw_ret.op = "shutdown" =>
           (gw_terminations # <<>> =>
               gw_terminations[Len(gw_terminations)] = 1))

\* C39: one request in flight per gateway instance, responses paired with
\* requests.  On a subprocess that has answered every request with one
\* line, in order, and no notification, every call_tool that wrote its
\* request read exactly one line, the response with the id of that request,
\* and a call that wrote nothing read nothing; the same holds for the
\* handshake, so that no response is left unread between two operations,
\* whatever calls and handshakes succeeded or failed before.
C39_ResponsesPaired ==
    gw_stdout.answered =>
        /\ gw_stdout.unread = <<>>
        /\ (gw_ret.op = "call_tool" =>
               gw_ret.read = (IF gw_ret.wrote = 1 THEN <<gw_ret.id>> ELSE <<>>))
        /\ (gw_ret.op \in {"start_server", "initialize_connection"}
               /\ "wrote" \in DOMAIN gw_ret =>
               gw_ret.read = (IF gw_ret.wrote # <<>> THEN <<gw_ret.id>>
                              ELSE <<>>))

\* C39 witness: after a failed handshake and an earlier call, a tool call has
\* read the response to its own request.
C39_Witness ==
    /\ gw_stdout.answered
    /\ ~gw_ready
    /\ gw_ret.op = "call_tool"
    /\ gw_ret.kind = "result"
    /\ gw_ret.id = 3
    /\ gw_ret.read = <<3>>
    /\ Len(gw_wire) = 3
    /\ gw_wire[2].method = "tools/call"

\* A result without success = true.
NotSuccess(r) == ~("success" \in DOMAIN r /\ r["success"] = TRUE)

\* The error text of a result, None when it has none.
ErrorOf(r) == IF "error" \in DOMAIN r THEN r["error"] ELSE None

\* The names of the activities in the successful results of a list.
NamesOfSuccesses(list) ==
    UNION { {list[i].activities[j].name : j \in DOMAIN list[i].activities} :
              i \in {k \in DOMAIN list : ~NotSuccess(list[k])} }

\* C40: a recorded result without success = true, a gateway {error: cause}
\* with no success field included, is a failure to every consumer.  The
\* decision view shows the error marker for that tool, the response view
\* has no weather summary from it and no activity from it, and while it is
\* the stored weather result or the latest activity result its error text
\* is among the response view's errors.
C40_FailureForEveryConsumer ==
    (util.fn = "context_builder" /\ util.decision_view # NoView) =>
        LET c == util.context
            dv == util.decision_view
            rv == util.response_view
        IN  /\ "raised" \notin DOMAIN dv
            /\ "raised" \notin DOMAIN rv
            /\ (("weather_data" \in DOMAIN c /\ NotSuccess(c.weather_data)) =>
                   /\ dv.data_collected.weather =
                          [error |-> ErrorOf(c.weather_data)]
                   /\ rv.weather_data = ReturnedNone
                   /\ \E i \in DOMAIN rv.errors :
                          /\ rv.errors[i].text = "Weather data unavailable"
                          /\ rv.errors[i].error = ErrorOf(c.weather_data))
            /\ (("activity_data" \in DOMAIN c /\ NotSuccess(c.activity_data)) =>
                   /\ dv.data_collected.activities =
                          [error |-> ErrorOf(c.activity_data)]
                   /\ \E i \in DOMAIN rv.errors :
                          /\ rv.errors[i].text = "Activity data unavailable"
                          /\ rv.errors[i].error = ErrorOf(c.activity_data))
            /\ ("activity_data_list" \in DOMAIN c =>
                   \A i \in DOMAIN rv.activities :
                       rv.activities[i].name \in
                           NamesOfSuccesses(c.activity_data_list))
            /\ (("activity_data_list" \in DOMAIN c
                   /\ \A k \in DOMAIN c.activity_data_list :
                          NotSuccess(c.activity_data_list[k])) =>
                   rv.activities = <<>>)

\* C40 witness: the stored weather result and the latest activity result
\* are gateway errors without a success field, after a successful activity
\* result.
C40_Witness ==
    /\ util.fn = "context_builder"
    /\ "weather_data" \in DOMAIN util.context
    /\ util.context.weather_data = [error |-> "MCP tool call failed"]
    /\ util.activity_log = <<AOk, [error |-> "MCP tool call failed"]>>
    /\ Len(util.response_view.errors) = 2
    /\ Len(util.response_view.activities) = 2
    /\ util.decision_view.data_collected.weather =
           [error |-> "MCP tool call failed"]

====
